---- MODULE Spec2Model ----
(***************************************************************************)
(* A model of the orchestration utilities of mlpug:                        *)
(*   - the key-path accessor of the nested log store                       *)
(*     (src/mlpug/utils/utils.py: get_value_at, set_value_at, has_key,     *)
(*     can_get_and_set_values), on a heap of Python objects, so that       *)
(*     in-place mutation and object identity are visible;                  *)
(*   - the per-replica gateway (src/mlpug/tensorflow/distributed_utils.py: *)
(*     contains_per_replica_data, unpack_per_replica_and_map,              *)
(*     pack_per_replica).                                                  *)
(*   - the training run (TrainingManager, its callback chain, the metric   *)
(*     loggers and the CheckpointManager) as the examples configure it     *)
(*     (src/mlpug/examples/documentation/pytorch/xla/fashion_mnist.py,     *)
(*     src/examples/chatbot/training_process.py,                           *)
(*     src/mlpug/examples/chatbot/tensorflow/train_chatbot_reference.py);  *)
(*   - the MetricEvaluator as training_process.py configures it;           *)
(*   - LogProgress and BatchSizeLogger                                     *)
(*     (src/mlpug/trainers/callbacks/basic.py) on the heap of the key-path *)
(*     accessor;                                                           *)
(*   - the wrapping of a function for a distribution strategy              *)
(*     (distributed_utils.py: wrap_in_tf_func, create_distributed_func);   *)
(*   - the worker processes of the fashion-MNIST job and their rendezvous  *)
(*     points (fashion_mnist.py: worker_fn).                               *)
(* Each part has its own specification (SpecKeyPath, SpecDist, SpecTrain,  *)
(* SpecResume, SpecEval, SpecLogProgress, SpecBatchSizeLogger,             *)
(* SpecDistFunc, SpecWorkers and, with fairness, SpecWorkersFair); the     *)
(* variables of the other parts stay at their initial value.               *)
(***************************************************************************)
EXTENDS Integers, Sequences, FiniteSets, TLC

VARIABLES
    heap,       \* the dict objects allocated so far: object id -> (key -> value)
    root,       \* the value the caller passes as nested_data
    kpPc,       \* the last key-path call: "init", "set" or "get"
    kpOp,       \* the arguments of the last key-path call
    kpRet,      \* what the last key-path call did: exception, returned value, warnings
    prevHeap,   \* the heap when the last key-path call was entered
    kpCalls,    \* number of key-path calls made so far
    dPc,        \* the last gateway call: "init", "pack", "unpack", "contains"
    dIn,        \* the per-device data of the run: one tuple of components per device
    dPacked,    \* what pack_per_replica returned for dIn (None before the call)
    dOp,        \* the arguments of the last gateway call
    dRet,       \* what the last gateway call did
    tmState,    \* TrainingManager: "Configured", "Running", "Completed" or "Failed"
    tmCfg,      \* what the manager and its callbacks were constructed with
    tmPc,       \* where start_training is: "idle" or "hook" (firing a hook)
    tmHook,     \* the hook being fired
    tmCb,       \* position in the callback list of the next callback of this hook
    tmActive,   \* the callbacks whose hook has started and not yet returned
    tmOk,       \* the callbacks whose hook returned success at this hook
    tmEpoch,    \* current.epoch
    tmBatch,    \* current.batch_step
    tmIter,     \* current.global_iter
    tmLoss,     \* the loss the Trainer computed for the batch just trained
    tmLogs,     \* the LogTree: key path -> value and the hook event that wrote it
    tmTrace,    \* the hook events fired by this manager, in order
    tmFailures, \* number of recorded callback failures (hooks that returned False)
    cbWindow,   \* TrainingMetricsLogger: the sliding window buffer
    cbBest,     \* CheckpointManager: the best monitored value so far
    ckptLog,    \* CheckpointManager: one entry per monitoring step: value, written or not
    tmSeen,     \* what CheckpointManager and LogProgress last read from the LogTree
    tmSnap,     \* the persisted training checkpoint (None before one is taken)
    tmAtSnap,   \* the state of the run when the checkpoint was taken
    tmResumed,  \* "no", "fresh" (new manager, checkpoint not loaded) or "restored"
    evState,    \* MetricEvaluator: "new", "ready", "rejected", "running", "done", "aborted"
    evCfg,      \* the functions the evaluator was constructed with
    evJob,      \* the evaluate call: number of batches, distributed or not
    evPc,       \* the step of evaluate that runs next
    evTrace,    \* the functions called by this evaluate call, in order
    evInputs,   \* metric -> the gathered (and combined) inputs
    evResult,   \* metric -> the computed value, for the metrics computed so far
    evErrors,   \* the metrics whose compute function raised (logged)
    lpCfg,      \* LogProgress: log_period, set_names, batch_level
    lpPc,       \* the last LogProgress hook called
    lpOut,      \* what that hook wrote to the progress text stream
    lpRet,      \* what that hook returned or raised
    bslCfg,     \* BatchSizeLogger: batch_dimension, logs_base_path
    bslPc,      \* the last BatchSizeLogger hook called
    bslBatch,   \* the training batch that hook was called with
    bslRet,     \* what that hook returned or raised
    dfPc,       \* the last distributed-function call: "init", "create", "wrap", "call"
    dfWrapper,  \* the callable create_distributed_func returned (None before)
    dfOp,       \* the arguments of the last distributed-function call
    dfRuns,     \* the calls of strategy.run made so far: func, args, kwargs
    dfRet,      \* what the last distributed-function call returned or raised
    wkCfg,      \* the spawned training job: number of workers, distributed or not
    wkPc,       \* worker -> where its worker_fn is
    wkArrived,  \* rendezvous tag -> the workers that have reached it
    wkCount,    \* worker -> rendezvous tag -> number of times it reached it
    wkLoaded,   \* the workers whose load_data has returned
    wkTrained   \* the workers whose start_training has returned

kpVars == <<heap, root, kpPc, kpOp, kpRet, prevHeap, kpCalls>>
distVars == <<dPc, dIn, dPacked, dOp, dRet>>
trainVars == <<tmState, tmCfg, tmPc, tmHook, tmCb, tmActive, tmOk, tmEpoch, tmBatch, tmIter, tmLoss, tmLogs, tmTrace, tmFailures, cbWindow, cbBest, ckptLog, tmSeen, tmSnap, tmAtSnap, tmResumed>>
evalVars == <<evState, evCfg, evJob, evPc, evTrace, evInputs, evResult, evErrors>>
lpVars == <<lpCfg, lpPc, lpOut, lpRet>>
bslVars == <<bslCfg, bslPc, bslBatch, bslRet>>
dfVars == <<dfPc, dfWrapper, dfOp, dfRuns, dfRet>>
wkVars == <<wkCfg, wkPc, wkArrived, wkCount, wkLoaded, wkTrained>>
vars == <<kpVars, distVars, trainVars, evalVars, lpVars, bslVars, dfVars, wkVars>>

\* The parts that are not running keep these values.
TrainIdle ==
    /\ tmState = "idle" /\ tmCfg = <<>> /\ tmPc = "idle" /\ tmHook = "none"
    /\ tmCb = 0 /\ tmActive = {} /\ tmOk = {}
    /\ tmEpoch = 0 /\ tmBatch = 0 /\ tmIter = 0 /\ tmLoss = 0
    /\ tmLogs = <<>> /\ tmTrace = <<>> /\ tmFailures = 0
    /\ cbWindow = <<>> /\ cbBest = <<>> /\ ckptLog = <<>>
    /\ tmSeen = <<>> /\ tmSnap = <<>> /\ tmAtSnap = <<>> /\ tmResumed = "no"

EvalIdle ==
    /\ evState = "idle" /\ evCfg = <<>> /\ evJob = <<>> /\ evPc = "idle"
    /\ evTrace = <<>> /\ evInputs = <<>> /\ evResult = <<>> /\ evErrors = {}

LpIdle ==
    /\ lpCfg = <<>> /\ lpPc = "idle" /\ lpOut = <<>> /\ lpRet = <<>>

BslIdle ==
    /\ bslCfg = <<>> /\ bslPc = "idle" /\ bslBatch = <<>> /\ bslRet = <<>>

DfIdle ==
    /\ dfPc = "idle" /\ dfWrapper = <<>> /\ dfOp = <<>> /\ dfRuns = <<>> /\ dfRet = <<>>

WkIdle ==
    /\ wkCfg = <<>> /\ wkPc = <<>> /\ wkArrived = <<>> /\ wkCount = <<>>
    /\ wkLoaded = {} /\ wkTrained = {}

LaterIdle == BslIdle /\ DfIdle /\ WkIdle

(***************************************************************************)
(* Bounds of the model.                                                    *)
(***************************************************************************)
MaxCalls == 2
MaxDevices == 2
MaxComponents == 2
MaxNest == 2

(***************************************************************************)
(* Python values.  Every value is a record of the same shape, so that any  *)
(* two values can be compared.  A str is its sequence of characters; a     *)
(* list holds strs; a dict is a reference (num) to an object of the heap.  *)
(***************************************************************************)
NoneV == [kind |-> "none", num |-> 0, chars |-> <<>>, elems |-> <<>>]
IntV(n) == [kind |-> "int", num |-> n, chars |-> <<>>, elems |-> <<>>]
StrV(cs) == [kind |-> "str", num |-> 0, chars |-> cs, elems |-> <<>>]
ListV(es) == [kind |-> "list", num |-> 0, chars |-> <<>>, elems |-> es]
RefV(id) == [kind |-> "dict", num |-> id, chars |-> <<>>, elems |-> <<>>]

EmptyDict == [k \in {} |-> NoneV]

\* base_path=None of set_value_at
NoBasePath == <<"<None>">>

(***************************************************************************)
(* str.split(".") and ".".join(...) on sequences of characters.            *)
(***************************************************************************)
RECURSIVE Split(_)
Split(s) ==
    IF \A i \in 1..Len(s) : s[i] # "."
    THEN <<s>>
    ELSE LET i == CHOOSE i \in 1..Len(s) :
                      s[i] = "." /\ \A j \in 1..(i - 1) : s[j] # "."
         IN  <<SubSeq(s, 1, i - 1)>> \o Split(SubSeq(s, i + 1, Len(s)))

RECURSIVE Join(_)
Join(segs) ==
    IF Len(segs) = 0 THEN <<>>
    ELSE IF Len(segs) = 1 THEN segs[1]
    ELSE segs[1] \o <<".">> \o Join(Tail(segs))

\* `key in s` for two strs: the substring test
IsSubstring(key, s) ==
    \E i \in 0..(Len(s) - Len(key)) : SubSeq(s, i + 1, i + Len(key)) = key

(***************************************************************************)
(* has_key(o, key): hasattr(o, '__iter__') and (key in o)                  *)
(***************************************************************************)
HasKey(h, o, key) ==
    CASE o.kind = "dict" -> key \in DOMAIN h[o.num]
      [] o.kind = "str"  -> IsSubstring(key, o.chars)
      [] o.kind = "list" -> \E i \in 1..Len(o.elems) : o.elems[i] = key
      [] OTHER           -> FALSE

(***************************************************************************)
(* can_get_and_set_values(o): o is not None and has callable __getitem__   *)
(* and __setitem__ (a dict, a list; not a str, an int, None).              *)
(***************************************************************************)
CanGetAndSetAnything(o) == TRUE

CanGetAndSetValues(o) == o.kind \in {"dict", "list"}

(***************************************************************************)
(* o[key] with a str key: the stored value of a dict (a KeyError when the  *)
(* key is absent); a TypeError for a str or a list (their indices must be  *)
(* integers).                                                              *)
(***************************************************************************)
GetItem(h, o, key) ==
    IF o.kind = "dict"
    THEN IF key \in DOMAIN h[o.num]
         THEN [exc |-> "none", value |-> h[o.num][key]]
         ELSE [exc |-> "KeyError", value |-> NoneV]
    ELSE [exc |-> "TypeError", value |-> NoneV]

(***************************************************************************)
(* o[key] = v with a str key: the dict object is changed in place; a list  *)
(* raises a TypeError.                                                     *)
(***************************************************************************)
DictWith(d, key, v) ==
    [k \in (DOMAIN d) \cup {key} |-> IF k = key THEN v ELSE d[k]]

SetItemReplacesDict(h, o, key, v) ==
    IF o.kind = "dict"
    THEN [exc |-> "none", heap |-> [h EXCEPT ![o.num] = DictWith(EmptyDict, key, v)]]
    ELSE [exc |-> "TypeError", heap |-> h]

SetItem(h, o, key, v) ==
    IF o.kind = "dict"
    THEN [exc |-> "none", heap |-> [h EXCEPT ![o.num] = DictWith(h[o.num], key, v)]]
    ELSE [exc |-> "TypeError", heap |-> h]

(***************************************************************************)
(* get_value_at(key_path, nested_data, default, warn_on_failure)           *)
(***************************************************************************)
RECURSIVE GetLoop(_, _, _, _)
GetLoop(h, value, keys, i) ==
    IF i > Len(keys)
    THEN [exc |-> "none", value |-> value, found |-> TRUE]
    ELSE IF HasKey(h, value, keys[i])
         THEN LET item == GetItem(h, value, keys[i])
              IN  IF item.exc # "none"
                  THEN [exc |-> item.exc, value |-> NoneV, found |-> TRUE]
                  ELSE GetLoop(h, item.value, keys, i + 1)
         ELSE [exc |-> "none", value |-> NoneV, found |-> FALSE]

\* Python's truth value of a stored value
Falsy(v) ==
    \/ v.kind = "none"
    \/ v.kind = "int" /\ v.num = 0
    \/ v.kind = "str" /\ v.chars = <<>>
    \/ v.kind = "list" /\ v.elems = <<>>

GetValueAtDefaultForFalsy(h, key_path, nested_data, default, warn_on_failure) ==
    LET r == GetLoop(h, nested_data, Split(key_path), 1)
    IN  [exc      |-> r.exc,
         value    |-> IF r.exc # "none" THEN NoneV
                      ELSE IF Falsy(r.value) THEN default ELSE r.value,
         warnings |-> IF r.exc = "none" /\ ~r.found /\ warn_on_failure THEN 1 ELSE 0,
         heap     |-> h]

GetValueAtKeepingNone(h, key_path, nested_data, default, warn_on_failure) ==
    LET r == GetLoop(h, nested_data, Split(key_path), 1)
    IN  [exc      |-> r.exc,
         value    |-> IF r.exc # "none" THEN NoneV
                      ELSE IF ~r.found THEN default ELSE r.value,
         warnings |-> IF r.exc = "none" /\ ~r.found /\ warn_on_failure THEN 1 ELSE 0,
         heap     |-> h]

GetValueAt(h, key_path, nested_data, default, warn_on_failure) ==
    LET r == GetLoop(h, nested_data, Split(key_path), 1)
    IN  [exc      |-> r.exc,
         value    |-> IF r.exc # "none" THEN NoneV
                      ELSE IF r.value = NoneV THEN default ELSE r.value,
         warnings |-> IF r.exc = "none" /\ ~r.found /\ warn_on_failure THEN 1 ELSE 0,
         heap     |-> h]

(***************************************************************************)
(* set_value_at, the step that makes an absent intermediate segment:       *)
(*     if not has_key(nested_data, root_key):                              *)
(*         nested_data[root_key] = {}                                      *)
(*         if warn_on_path_unavailable: logger.warn(...)                   *)
(***************************************************************************)
CreatePathOnlyWhenWarning(h, nested_data, root_key, warn) ==
    IF ~HasKey(h, nested_data, root_key) /\ warn
    THEN LET made == SetItem(Append(h, EmptyDict), nested_data, root_key,
                             RefV(Len(h) + 1))
         IN  [exc      |-> made.exc,
              heap     |-> IF made.exc = "none" THEN made.heap ELSE h,
              warnings |-> IF made.exc = "none" THEN 1 ELSE 0]
    ELSE [exc |-> "none", heap |-> h, warnings |-> 0]

CreatePath(h, nested_data, root_key, warn) ==
    IF ~HasKey(h, nested_data, root_key)
    THEN LET made == SetItem(Append(h, EmptyDict), nested_data, root_key,
                             RefV(Len(h) + 1))
         IN  [exc      |-> made.exc,
              heap     |-> IF made.exc = "none" THEN made.heap ELSE h,
              warnings |-> IF made.exc = "none" /\ warn THEN 1 ELSE 0]
    ELSE [exc |-> "none", heap |-> h, warnings |-> 0]

(***************************************************************************)
(* set_value_at(key_path, nested_data, value, warn_on_path_unavailable,    *)
(*              base_path), with the number of warnings logged so far.     *)
(***************************************************************************)
RECURSIVE SetValueAt(_, _, _, _, _, _, _)
SetValueAt(h, key_path, nested_data, value, warn, base_path, warned) ==
    IF ~CanGetAndSetValues(nested_data)
    THEN [exc |-> "Exception", at |-> base_path, heap |-> h, warnings |-> warned]
    ELSE
    LET keys == Split(key_path)
        root_key == keys[1]
        is_final_key == Len(keys) = 1
    IN  IF ~is_final_key
        THEN LET bp == IF base_path = NoBasePath THEN root_key
                       ELSE base_path \o <<".">> \o root_key
                 made == CreatePath(h, nested_data, root_key, warn)
                 w == warned + made.warnings
             IN  IF made.exc # "none"
                 THEN [exc |-> made.exc, at |-> bp, heap |-> made.heap, warnings |-> w]
                 ELSE LET item == GetItem(made.heap, nested_data, root_key)
                      IN  IF item.exc # "none"
                          THEN [exc |-> item.exc, at |-> bp, heap |-> made.heap,
                                warnings |-> w]
                          ELSE SetValueAt(made.heap, Join(Tail(keys)), item.value,
                                          value, warn, bp, w)
        ELSE LET done == SetItem(h, nested_data, root_key, value)
             IN  [exc |-> done.exc, at |-> base_path, heap |-> done.heap,
                  warnings |-> warned]

(***************************************************************************)
(* The inputs of the key-path calls.  A key path is given as the string    *)
(* passed to the call (path) and as the keys the caller means (segs).      *)
(***************************************************************************)
KP(path, segs) == [path |-> path, segs |-> segs]

KeyPaths ==
    { KP(<<"a">>, << <<"a">> >>),
      KP(<<"b">>, << <<"b">> >>),
      KP(<<"a", ".", "b">>, << <<"a">>, <<"b">> >>),
      KP(<<"a", ".", "a">>, << <<"a">>, <<"a">> >>),
      KP(<<"b", ".", "a">>, << <<"b">>, <<"a">> >>),
      KP(<<"a", ".", "b", ".", "a">>, << <<"a">>, <<"b">>, <<"a">> >>),
      KP(<<"a", "b", ".", "a">>, << <<"a", "b">>, <<"a">> >>) }

\* the values a caller stores, the fresh empty dict apart
PlainValues == { NoneV, IntV(0), StrV(<<>>), StrV(<<"a">>), ListV(<< <<"b">> >>) }

\* the roots a caller may pass: an empty dict (object 1 of the heap) or a non-dict
Roots == { RefV(1), NoneV, IntV(0), StrV(<<"a">>), ListV(<< <<"b">> >>) }

Defaults == { NoneV, IntV(7) }

NoOp == [path |-> <<>>, segs |-> <<>>, value |-> NoneV, default |-> NoneV,
         warn |-> FALSE]
NoRet == [exc |-> "none", value |-> NoneV, warnings |-> 0, at |-> NoBasePath]

KpInit ==
    /\ heap = <<EmptyDict>>
    /\ root \in Roots
    /\ kpPc = "init"
    /\ kpOp = NoOp
    /\ kpRet = NoRet
    /\ prevHeap = <<EmptyDict>>
    /\ kpCalls = 0

\* set_value_at(p, tree, v, w) with a plain value
CallSetValueAt ==
    /\ kpCalls < MaxCalls
    /\ \E p \in KeyPaths, v \in PlainValues, w \in BOOLEAN :
         LET r == SetValueAt(heap, p.path, root, v, w, NoBasePath, 0)
         IN  /\ heap' = r.heap
             /\ prevHeap' = heap
             /\ kpOp' = [path |-> p.path, segs |-> p.segs, value |-> v,
                         default |-> NoneV, warn |-> w]
             /\ kpRet' = [exc |-> r.exc, value |-> NoneV, warnings |-> r.warnings,
                          at |-> r.at]
    /\ kpPc' = "set"
    /\ kpCalls' = kpCalls + 1
    /\ UNCHANGED root

\* set_value_at(p, tree, {}, w): the caller stores a dict it has just made
CallSetValueAtNewDict ==
    /\ kpCalls < MaxCalls
    /\ \E p \in KeyPaths, w \in BOOLEAN :
         LET h1 == Append(heap, EmptyDict)
             v == RefV(Len(heap) + 1)
             r == SetValueAt(h1, p.path, root, v, w, NoBasePath, 0)
         IN  /\ heap' = r.heap
             /\ prevHeap' = h1
             /\ kpOp' = [path |-> p.path, segs |-> p.segs, value |-> v,
                         default |-> NoneV, warn |-> w]
             /\ kpRet' = [exc |-> r.exc, value |-> NoneV, warnings |-> r.warnings,
                          at |-> r.at]
    /\ kpPc' = "set"
    /\ kpCalls' = kpCalls + 1
    /\ UNCHANGED root

\* get_value_at(p, tree, d, w)
CallGetValueAt ==
    /\ kpCalls < MaxCalls
    /\ \E p \in KeyPaths, d \in Defaults, w \in BOOLEAN :
         LET r == GetValueAt(heap, p.path, root, d, w)
         IN  /\ heap' = r.heap
             /\ prevHeap' = heap
             /\ kpOp' = [path |-> p.path, segs |-> p.segs, value |-> NoneV,
                         default |-> d, warn |-> w]
             /\ kpRet' = [exc |-> r.exc, value |-> r.value, warnings |-> r.warnings,
                          at |-> NoBasePath]
    /\ kpPc' = "get"
    /\ kpCalls' = kpCalls + 1
    /\ UNCHANGED root

DistIdle ==
    /\ dPc = "init"
    /\ dIn = <<>>
    /\ dPacked = <<>>
    /\ dOp = <<>>
    /\ dRet = <<>>

KpNext ==
    \/ CallSetValueAt /\ UNCHANGED <<distVars, trainVars, evalVars, lpVars, bslVars, dfVars, wkVars>>
    \/ CallSetValueAtNewDict /\ UNCHANGED <<distVars, trainVars, evalVars, lpVars, bslVars, dfVars, wkVars>>
    \/ CallGetValueAt /\ UNCHANGED <<distVars, trainVars, evalVars, lpVars, bslVars, dfVars, wkVars>>

InitKeyPath == KpInit /\ DistIdle /\ TrainIdle /\ EvalIdle /\ LpIdle /\ LaterIdle

SpecKeyPath == InitKeyPath /\ [][KpNext]_vars

(***************************************************************************)
(* What a tree holds, read off the heap without the accessor: the value at *)
(* the keys segs below v, following dicts only.                            *)
(***************************************************************************)
MissingV == [kind |-> "missing", num |-> 0, chars |-> <<>>, elems |-> <<>>]

RECURSIVE Resolve(_, _, _)
Resolve(h, v, segs) ==
    IF segs = <<>> THEN v
    ELSE IF v.kind = "dict" /\ segs[1] \in DOMAIN h[v.num]
         THEN Resolve(h, h[v.num][segs[1]], Tail(segs))
         ELSE MissingV

\* the value at the first n keys of the last call's path, in heap h
At(h, n) == Resolve(h, root, SubSeq(kpOp.segs, 1, n))

NumSegs == Len(kpOp.segs)

\* the root and every value stored at an intermediate segment of the path were dicts
\* when the last call was entered
PathOpen == \A n \in 0..(NumSegs - 1) : At(prevHeap, n).kind \in {"dict", "missing"}

\* every key path a tree built with KeyPaths can hold
Probes == UNION { { SubSeq(p.segs, 1, n) : n \in 1..Len(p.segs) } : p \in KeyPaths }

IsPrefixOf(q, segs) == Len(q) <= Len(segs) /\ SubSeq(segs, 1, Len(q)) = q

(***************************************************************************)
(* C1: round trip.  After set_value_at(P, tree, V), on a tree in which P   *)
(* is a valid path (the root and the values already stored at its          *)
(* intermediate segments are dicts; the empty dict included),              *)
(* get_value_at(P, tree) returns V.                                        *)
(***************************************************************************)
C1_RoundTrip ==
    (kpPc = "set" /\ PathOpen) =>
        /\ kpRet.exc = "none"
        /\ LET g == GetValueAt(heap, kpOp.path, root, NoneV, TRUE)
           IN  g.exc = "none" /\ g.value = kpOp.value

C1_Witness ==
    /\ kpPc = "set" /\ PathOpen /\ kpRet.exc = "none"
    /\ NumSegs >= 2
    /\ DOMAIN prevHeap[1] # {}
    /\ kpOp.value = IntV(0)

(***************************************************************************)
(* C2: get_value_at on a dict tree returns the default and does not raise  *)
(* for every path that cannot be resolved in the tree.                     *)
(***************************************************************************)
C2_GetNeverRaises ==
    (kpPc = "get" /\ root.kind = "dict" /\ At(heap, NumSegs) = MissingV) =>
        kpRet.exc = "none" /\ kpRet.value = kpOp.default

(***************************************************************************)
(* C3: on a valid path set_value_at does not raise; every intermediate     *)
(* segment that was absent now holds a dict made by the call, which holds  *)
(* the next segment only; every intermediate dict that existed is the same *)
(* object; the last segment holds V; warn_on_path_unavailable decides the  *)
(* warnings (one per segment made) and nothing of the tree.                *)
(***************************************************************************)
C3_SetCreatesPath ==
    (kpPc = "set" /\ PathOpen) =>
        /\ kpRet.exc = "none"
        /\ \A n \in 1..(NumSegs - 1) :
             /\ At(heap, n).kind = "dict"
             /\ IF At(prevHeap, n) = MissingV
                THEN /\ At(heap, n).num > Len(prevHeap)
                     /\ DOMAIN heap[At(heap, n).num] = {kpOp.segs[n + 1]}
                ELSE At(heap, n) = At(prevHeap, n)
        /\ At(heap, NumSegs) = kpOp.value
        /\ kpRet.warnings =
             IF kpOp.warn
             THEN Cardinality({n \in 1..(NumSegs - 1) : At(prevHeap, n) = MissingV})
             ELSE 0
        /\ SetValueAt(prevHeap, kpOp.path, root, kpOp.value, ~kpOp.warn,
                      NoBasePath, 0).heap = heap

C3_Witness ==
    /\ kpPc = "set" /\ PathOpen /\ kpRet.exc = "none"
    /\ NumSegs = 3
    /\ At(prevHeap, 1) = MissingV
    /\ ~kpOp.warn
    /\ DOMAIN prevHeap[1] # {}

(***************************************************************************)
(* C4, as the spec has it: with a dict as the root, no set_value_at call   *)
(* raises, whatever values sit along the path.                             *)
(***************************************************************************)
C4_RaisesOnlyForRoot ==
    (kpPc = "set" /\ root.kind = "dict") => kpRet.exc = "none"

(***************************************************************************)
(* C4, amended: set_value_at raises exactly when the root or a value       *)
(* already stored at an intermediate segment of the path is not a dict:    *)
(* the Exception "Invalid path" for a scalar, None or a str, a TypeError   *)
(* for a list; the tree is then left as it was.                            *)
(***************************************************************************)
C4_RaisesIffPathBlocked ==
    kpPc = "set" =>
        /\ (kpRet.exc = "none") <=> PathOpen
        /\ \A n \in 0..(NumSegs - 1) :
             At(prevHeap, n).kind \notin {"dict", "missing"} =>
                 /\ kpRet.exc = IF At(prevHeap, n).kind = "list" THEN "TypeError"
                                ELSE "Exception"
                 /\ heap = prevHeap

C4_Witness ==
    /\ kpPc = "set" /\ root.kind = "dict"
    /\ NumSegs = 3
    /\ At(prevHeap, 1).kind = "dict"
    /\ At(prevHeap, 2).kind = "none"
    /\ kpRet.exc = "Exception"

(***************************************************************************)
(* C5, as the spec has it: after set_value_at every key path the tree held *)
(* before the call is still in the tree.                                   *)
(***************************************************************************)
C5_NoKeyPathLost ==
    (kpPc = "set" /\ kpRet.exc = "none") =>
        \A q \in Probes :
            Resolve(prevHeap, root, q) # MissingV => Resolve(heap, root, q) # MissingV

(***************************************************************************)
(* C5, amended: set_value_at removes no key from any dict and changes no   *)
(* entry but the last segment's; dicts that existed along the path are the *)
(* same objects; every key path held before is still held, with the same   *)
(* value, unless it runs through the whole of P (the value stored at P,    *)
(* and with it the keys below it, is replaced by V); get_value_at changes  *)
(* nothing.                                                                *)
(***************************************************************************)
C5_OnlyLastSegmentChanges ==
    /\ kpPc = "get" => heap = prevHeap
    /\ kpPc = "set" =>
        /\ \A id \in 1..Len(prevHeap) :
             /\ DOMAIN prevHeap[id] \subseteq DOMAIN heap[id]
             /\ \A k \in DOMAIN prevHeap[id] :
                  \/ heap[id][k] = prevHeap[id][k]
                  \/ /\ kpRet.exc = "none"
                     /\ RefV(id) = At(heap, NumSegs - 1)
                     /\ k = kpOp.segs[NumSegs]
        /\ \A n \in 0..(NumSegs - 1) :
             At(prevHeap, n).kind = "dict" => At(heap, n) = At(prevHeap, n)
        /\ \A q \in Probes :
             (Resolve(prevHeap, root, q) # MissingV /\ ~IsPrefixOf(kpOp.segs, q)) =>
                 Resolve(heap, root, q) = Resolve(prevHeap, root, q)

C5_Witness ==
    /\ kpPc = "set" /\ kpRet.exc = "none"
    /\ At(prevHeap, NumSegs).kind = "dict"
    /\ DOMAIN prevHeap[At(prevHeap, NumSegs).num] # {}
    /\ At(heap, NumSegs) = IntV(0)


(***************************************************************************)
(* The per-replica gateway.  A value is a scalar, None, a list, a tuple or *)
(* a DistributedValues composite (values.PerReplica), whose elems are its  *)
(* per-device values, in device order.                                     *)
(***************************************************************************)
DNone == [kind |-> "none", num |-> 0, elems |-> <<>>]
DScalar(n) == [kind |-> "scalar", num |-> n, elems |-> <<>>]
DList(es) == [kind |-> "list", num |-> 0, elems |-> es]
DTuple(es) == [kind |-> "tuple", num |-> 0, elems |-> es]
DPerReplica(vs) == [kind |-> "dist", num |-> 0, elems |-> vs]

\* a tf.distribute.Strategy with n replicas; NoStrategy is distribution_strategy=None
Strategy(n) == [kind |-> "strategy", replicas |-> n]
NoStrategy == [kind |-> "none", replicas |-> 0]

(***************************************************************************)
(* contains_per_replica_data(data)                                         *)
(***************************************************************************)
ContainsPerReplicaDataTopLevelOnly(data) == data.kind = "dist"

RECURSIVE ContainsPerReplicaDataAnyElement(_)
ContainsPerReplicaDataAnyElement(data) ==
    IF data.kind \in {"list", "tuple"}
    THEN \E i \in 1..Len(data.elems) : ContainsPerReplicaDataAnyElement(data.elems[i])
    ELSE data.kind = "dist"

RECURSIVE ContainsPerReplicaData(_)
ContainsPerReplicaData(data) ==
    IF data.kind \in {"list", "tuple"}
    THEN Len(data.elems) > 0 /\ ContainsPerReplicaData(data.elems[1])
    ELSE data.kind = "dist"

(***************************************************************************)
(* zip of the sequences seqs: one tuple per index that every one has.      *)
(***************************************************************************)
MinLen(seqs) ==
    IF Len(seqs) = 0 THEN 0
    ELSE CHOOSE m \in { Len(seqs[i].elems) : i \in 1..Len(seqs) } :
             \A i \in 1..Len(seqs) : m <= Len(seqs[i].elems)

Zip(seqs) ==
    [j \in 1..MinLen(seqs) |-> [i \in 1..Len(seqs) |-> seqs[i].elems[j]]]

(***************************************************************************)
(* pack_per_replica(unpacked_replica_data):                                *)
(*     a tuple of values.PerReplica(t), for t in the zip of the sequences  *)
(*     of unpacked_replica_data                                            *)
(***************************************************************************)
PackPerReplicaNoZip(unpacked_replica_data) ==
    DTuple([i \in 1..Len(unpacked_replica_data.elems) |->
                DPerReplica(unpacked_replica_data.elems[i].elems)])

PackPerReplicaZipNoStar(unpacked_replica_data) ==
    DTuple([i \in 1..Len(unpacked_replica_data.elems) |->
                DPerReplica(<<unpacked_replica_data.elems[i]>>)])

PackPerReplica(unpacked_replica_data) ==
    LET z == Zip(unpacked_replica_data.elems)
    IN  DTuple([j \in 1..Len(z) |-> DPerReplica(z[j])])

(***************************************************************************)
(* distribution_strategy.experimental_local_results(value), of TensorFlow: *)
(* the values of a DistributedValues; for a nested structure, one copy of  *)
(* the structure per replica, each DistributedValues in it replaced by its *)
(* value on that replica (an IndexError when it has none); (value,) for    *)
(* anything else.                                                          *)
(***************************************************************************)
RECURSIVE ReplicaView(_, _)
ReplicaView(x, i) ==
    CASE x.kind = "dist" ->
             IF i <= Len(x.elems) THEN x.elems[i]
             ELSE [kind |-> "IndexError", num |-> 0, elems |-> <<>>]
      [] x.kind \in {"list", "tuple"} ->
             LET sub == [k \in 1..Len(x.elems) |-> ReplicaView(x.elems[k], i)]
             IN  IF \E k \in 1..Len(sub) : sub[k].kind = "IndexError"
                 THEN [kind |-> "IndexError", num |-> 0, elems |-> <<>>]
                 ELSE [kind |-> x.kind, num |-> 0, elems |-> sub]
      [] OTHER -> x

ExperimentalLocalResults(strategy, value) ==
    CASE value.kind = "dist" -> [exc |-> "none", value |-> DTuple(value.elems)]
      [] value.kind \in {"list", "tuple"} ->
             LET views == [i \in 1..strategy.replicas |-> ReplicaView(value, i)]
             IN  IF \E i \in 1..Len(views) : views[i].kind = "IndexError"
                 THEN [exc |-> "IndexError", value |-> DNone]
                 ELSE [exc |-> "none", value |-> DTuple(views)]
      [] OTHER -> [exc |-> "none", value |-> DTuple(<<value>>)]

(***************************************************************************)
(* The map functions of the model: lambda x: x, lambda x: [x],             *)
(* lambda x: 0.                                                            *)
(***************************************************************************)
MapFuncs == {"identity", "wrap", "zero"}

ApplyMap(map_func, x) ==
    CASE map_func = "identity" -> x
      [] map_func = "wrap"     -> DList(<<x>>)
      [] OTHER                 -> DScalar(0)

(***************************************************************************)
(* unpack_per_replica_and_map(map_func, per_replica_data,                  *)
(*     distribution_strategy, unpacked_replica_data); applied lists what   *)
(* map_func was applied to, in the order of the calls, consulted counts    *)
(* the calls of a method of distribution_strategy.                         *)
(***************************************************************************)
Raise(e) == [exc |-> e, value |-> DNone, applied |-> <<>>, consulted |-> 0]

MapOver(map_func, seq) ==
    [exc     |-> "none",
     value   |-> DTuple([i \in 1..Len(seq.elems) |-> ApplyMap(map_func, seq.elems[i])]),
     applied |-> seq.elems,
     consulted |-> 0]

UnpackWithoutBothCheck(map_func, per_replica_data, distribution_strategy, unpacked_replica_data) ==
    IF per_replica_data = DNone /\ unpacked_replica_data = DNone
    THEN Raise("ValueError")
    ELSE IF per_replica_data # DNone /\ unpacked_replica_data = DNone
    THEN IF distribution_strategy = NoStrategy
         THEN Raise("ValueError")
         ELSE LET u == ExperimentalLocalResults(distribution_strategy, per_replica_data)
              IN  IF u.exc # "none" THEN [Raise(u.exc) EXCEPT !.consulted = 1]
                  ELSE [MapOver(map_func, u.value) EXCEPT !.consulted = 1]
    ELSE MapOver(map_func, unpacked_replica_data)

UnpackWithoutLocalResults(map_func, per_replica_data, distribution_strategy, unpacked_replica_data) ==
    IF per_replica_data = DNone /\ unpacked_replica_data = DNone
    THEN Raise("ValueError")
    ELSE IF per_replica_data # DNone /\ unpacked_replica_data # DNone
    THEN Raise("ValueError")
    ELSE IF per_replica_data # DNone /\ unpacked_replica_data = DNone
    THEN IF distribution_strategy = NoStrategy
         THEN Raise("ValueError")
         ELSE MapOver(map_func, per_replica_data)
    ELSE MapOver(map_func, unpacked_replica_data)

UnpackAlwaysNeedingStrategy(map_func, per_replica_data, distribution_strategy, unpacked_replica_data) ==
    IF per_replica_data = DNone /\ unpacked_replica_data = DNone
    THEN Raise("ValueError")
    ELSE IF per_replica_data # DNone /\ unpacked_replica_data # DNone
    THEN Raise("ValueError")
    ELSE IF distribution_strategy = NoStrategy
    THEN Raise("ValueError")
    ELSE IF per_replica_data # DNone /\ unpacked_replica_data = DNone
    THEN LET u == ExperimentalLocalResults(distribution_strategy, per_replica_data)
         IN  IF u.exc # "none" THEN [Raise(u.exc) EXCEPT !.consulted = 1]
             ELSE [MapOver(map_func, u.value) EXCEPT !.consulted = 1]
    ELSE MapOver(map_func, unpacked_replica_data)

UnpackPerReplicaAndMap(map_func, per_replica_data, distribution_strategy, unpacked_replica_data) ==
    IF per_replica_data = DNone /\ unpacked_replica_data = DNone
    THEN Raise("ValueError")
    ELSE IF per_replica_data # DNone /\ unpacked_replica_data # DNone
    THEN Raise("ValueError")
    ELSE IF per_replica_data # DNone /\ unpacked_replica_data = DNone
    THEN IF distribution_strategy = NoStrategy
         THEN Raise("ValueError")
         ELSE LET u == ExperimentalLocalResults(distribution_strategy, per_replica_data)
              IN  IF u.exc # "none" THEN [Raise(u.exc) EXCEPT !.consulted = 1]
                  ELSE [MapOver(map_func, u.value) EXCEPT !.consulted = 1]
    ELSE MapOver(map_func, unpacked_replica_data)

(***************************************************************************)
(* The inputs of the gateway calls.  Component j of device i is the scalar *)
(* 10 * i + j, so that no two components of a run are equal.               *)
(***************************************************************************)
DeviceTuple(i, len) == DTuple([j \in 1..len |-> DScalar(10 * i + j)])

\* one tuple of 0..MaxComponents components per device, for 1..MaxDevices devices
PerDeviceData ==
    UNION { { DList([i \in 1..n |-> DeviceTuple(i, lens[i])]) :
                lens \in [1..n -> 0..MaxComponents] } : n \in 1..MaxDevices }

NoDOp == [call |-> "none", map_func |-> "identity", per_replica_data |-> DNone,
          distribution_strategy |-> NoStrategy, unpacked_replica_data |-> DNone,
          data |-> DNone, core |-> DNone, wraps |-> <<>>]
NoDRet == [exc |-> "none", value |-> DNone, applied |-> <<>>, flag |-> FALSE, consulted |-> 0]

\* a value nested in lists and tuples: core is wrapped once per entry of wraps, the
\* first entry outermost; each wrapping puts it alone, first or second in the sequence
Wrappings == [kind : {"list", "tuple"}, place : {"only", "first", "second"}]

WrapIn(w, x) ==
    [kind  |-> w.kind,
     num   |-> 0,
     elems |-> CASE w.place = "only"  -> <<x>>
                 [] w.place = "first" -> <<x, DScalar(0)>>
                 [] OTHER             -> <<DScalar(0), x>>]

RECURSIVE Nested(_, _)
Nested(core, wraps) ==
    IF wraps = <<>> THEN core ELSE WrapIn(wraps[1], Nested(core, Tail(wraps)))

DistInit ==
    /\ dPc = "init"
    /\ dIn \in PerDeviceData
    /\ dPacked = DNone
    /\ dOp = NoDOp
    /\ dRet = NoDRet

\* pack_per_replica(dIn)
CallPackPerReplica ==
    /\ dPc = "init"
    /\ dPacked' = PackPerReplica(dIn)
    /\ dPc' = "pack"
    /\ dOp' = [NoDOp EXCEPT !.call = "pack", !.unpacked_replica_data = dIn]
    /\ dRet' = [NoDRet EXCEPT !.value = PackPerReplica(dIn)]
    /\ UNCHANGED dIn

\* the packed values a caller has at hand: what pack_per_replica returned, or one
\* of the composites in it
PackedInputs ==
    IF dPacked = DNone THEN {}
    ELSE {dPacked} \cup { dPacked.elems[j] : j \in 1..Len(dPacked.elems) }

\* unpack_per_replica_and_map(f, prd, strategy, urd), each argument given or None
CallUnpackPerReplicaAndMap ==
    /\ dPc \in {"init", "pack"}
    /\ \E f \in MapFuncs,
          prd \in {DNone} \cup PackedInputs,
          strategy \in {NoStrategy, Strategy(Len(dIn.elems))},
          urd \in {DNone, dIn} :
         LET r == UnpackPerReplicaAndMap(f, prd, strategy, urd)
         IN  /\ dOp' = [NoDOp EXCEPT !.call = "unpack", !.map_func = f,
                                     !.per_replica_data = prd,
                                     !.distribution_strategy = strategy,
                                     !.unpacked_replica_data = urd]
             /\ dRet' = [NoDRet EXCEPT !.exc = r.exc, !.value = r.value,
                                       !.applied = r.applied,
                                       !.consulted = r.consulted]
    /\ dPc' = "unpack"
    /\ UNCHANGED <<dIn, dPacked>>

\* contains_per_replica_data(data), for a scalar, an empty list or a composite that
\* pack_per_replica returned, nested 0..MaxNest deep in lists and tuples
CallContainsPerReplicaData ==
    /\ dPc = "pack"
    /\ \E core \in {DScalar(0), DList(<<>>)} \cup { dPacked.elems[j] : j \in 1..Len(dPacked.elems) },
          depth \in 0..MaxNest :
         \E wraps \in [1..depth -> Wrappings] :
            LET data == Nested(core, wraps)
            IN  /\ dOp' = [NoDOp EXCEPT !.call = "contains", !.data = data,
                                        !.core = core, !.wraps = wraps]
                /\ dRet' = [NoDRet EXCEPT !.flag = ContainsPerReplicaData(data)]
    /\ dPc' = "contains"
    /\ UNCHANGED <<dIn, dPacked>>

DistNext ==
    \/ CallPackPerReplica /\ UNCHANGED <<kpVars, trainVars, evalVars, lpVars, bslVars, dfVars, wkVars>>
    \/ CallUnpackPerReplicaAndMap /\ UNCHANGED <<kpVars, trainVars, evalVars, lpVars, bslVars, dfVars, wkVars>>
    \/ CallContainsPerReplicaData /\ UNCHANGED <<kpVars, trainVars, evalVars, lpVars, bslVars, dfVars, wkVars>>

KpIdle ==
    /\ heap = <<EmptyDict>>
    /\ root = RefV(1)
    /\ kpPc = "init"
    /\ kpOp = NoOp
    /\ kpRet = NoRet
    /\ prevHeap = <<EmptyDict>>
    /\ kpCalls = 0

InitDist == DistInit /\ KpIdle /\ TrainIdle /\ EvalIdle /\ LpIdle /\ LaterIdle

SpecDist == InitDist /\ [][DistNext]_vars

(***************************************************************************)
(* The data of a gateway call, read off its arguments.                     *)
(***************************************************************************)
NumDevices == Len(dIn.elems)

\* every device's tuple has the same number of components
Rectangular == \A i \in 1..NumDevices : Len(dIn.elems[i].elems) = Len(dIn.elems[1].elems)

GivenPacked == dOp.per_replica_data # DNone
GivenUnpacked == dOp.unpacked_replica_data # DNone

\* device i's component of the data the last unpack call was given
Component(i) ==
    IF GivenUnpacked THEN dOp.unpacked_replica_data.elems[i]
    ELSE IF dOp.per_replica_data.kind = "dist" THEN dOp.per_replica_data.elems[i]
    ELSE DTuple([j \in 1..Len(dOp.per_replica_data.elems) |->
                     dOp.per_replica_data.elems[j].elems[i]])

(***************************************************************************)
(* C6: an unpack_per_replica_and_map call given both input forms, or       *)
(* neither, raises a ValueError and applies map_func to nothing.           *)
(***************************************************************************)
C6_BothOrNeitherRejected ==
    (dPc = "unpack" /\ (GivenPacked <=> GivenUnpacked)) =>
        dRet.exc = "ValueError" /\ dRet.applied = <<>> /\ dRet.value = DNone

C6_Witness ==
    /\ dPc = "unpack" /\ GivenPacked /\ GivenUnpacked
    /\ dOp.distribution_strategy # NoStrategy
    /\ NumDevices = 2
    /\ dRet.exc = "ValueError"

(***************************************************************************)
(* C7, as the spec has it: for every sequence S of one tuple of scalar     *)
(* components per device, unpack_per_replica_and_map(identity,             *)
(* pack_per_replica(S), strategy) gives back the tuples of S, in order.    *)
(***************************************************************************)
PackedThenUnpacked ==
    /\ dPc = "unpack"
    /\ dOp.map_func = "identity"
    /\ dOp.per_replica_data = dPacked /\ dPacked # DNone
    /\ ~GivenUnpacked
    /\ dOp.distribution_strategy = Strategy(NumDevices)

C7_PackUnpackRoundTrip ==
    PackedThenUnpacked => dRet.exc = "none" /\ dRet.value.elems = dIn.elems

(***************************************************************************)
(* C7, amended: the round trip gives back S when every device's tuple of S *)
(* has the same number of components.                                      *)
(***************************************************************************)
C7_RoundTripOfEqualLengths ==
    (PackedThenUnpacked /\ Rectangular) =>
        dRet.exc = "none" /\ dRet.value.elems = dIn.elems

C7_Witness ==
    /\ PackedThenUnpacked /\ Rectangular
    /\ NumDevices = 2
    /\ Len(dIn.elems[1].elems) = 2
    /\ dRet.value.elems = dIn.elems

(***************************************************************************)
(* C8, as the spec has it: contains_per_replica_data is false for a plain  *)
(* scalar and true for a per-device composite, nested in lists and tuples  *)
(* or not.                                                                 *)
(***************************************************************************)
C8_FindsNestedComposite ==
    dPc = "contains" =>
        /\ dOp.data.kind = "scalar" => ~dRet.flag
        /\ dOp.core.kind = "dist" => dRet.flag

(***************************************************************************)
(* C8, amended: contains_per_replica_data is false for a plain scalar and  *)
(* true for a per-device composite, also for one nested at any depth in    *)
(* lists and tuples of which it is, at every level, the first element; a   *)
(* composite behind another first element is not found.                    *)
(***************************************************************************)
C8_FindsCompositeInFirstPlace ==
    dPc = "contains" =>
        dRet.flag = /\ dOp.core.kind = "dist"
                    /\ \A k \in 1..Len(dOp.wraps) : dOp.wraps[k].place # "second"

C8_Witness ==
    /\ dPc = "contains"
    /\ dOp.core.kind = "dist"
    /\ Len(dOp.wraps) = 2
    /\ dOp.wraps[1].place = "first" /\ dOp.wraps[2].place = "only"
    /\ dRet.flag

(***************************************************************************)
(* C9: given one input form (and, for a packed value, the strategy),       *)
(* unpack_per_replica_and_map returns a tuple of one result per device, in *)
(* device order, result i being map_func of device i's component, and     *)
(* applies map_func to these components only; packed data gives what the  *)
(* same data gives unpacked.                                               *)
(***************************************************************************)
OneFormGiven ==
    /\ dPc = "unpack"
    /\ GivenPacked # GivenUnpacked
    /\ GivenPacked => dOp.distribution_strategy # NoStrategy

C9_OneResultPerDevice ==
    OneFormGiven =>
        /\ dRet.exc = "none"
        /\ dRet.value.kind = "tuple"
        /\ Len(dRet.value.elems) = NumDevices
        /\ \A i \in 1..NumDevices :
             dRet.value.elems[i] = ApplyMap(dOp.map_func, Component(i))
        /\ dRet.applied = [i \in 1..NumDevices |-> Component(i)]
        /\ (dOp.per_replica_data = dPacked /\ Rectangular) =>
              dRet.value = UnpackPerReplicaAndMap(dOp.map_func, DNone, NoStrategy,
                                                  dIn).value

C9_Witness ==
    /\ OneFormGiven /\ GivenPacked
    /\ dOp.per_replica_data = dPacked
    /\ dOp.map_func = "wrap"
    /\ NumDevices = 2
    /\ Len(dPacked.elems) = 2
    /\ dRet.exc = "none"

(***************************************************************************)
(* C10: pack_per_replica returns a tuple of one composite per component    *)
(* index that every device has; composite j holds the j-th component of    *)
(* every device, in device order.                                          *)
(***************************************************************************)
C10_PackZipsComponents ==
    dPacked # DNone =>
        /\ dPacked.kind = "tuple"
        /\ \A j \in 1..(MaxComponents + 1) :
             (j <= Len(dPacked.elems)) <=>
                 (\A i \in 1..NumDevices : j <= Len(dIn.elems[i].elems))
        /\ \A j \in 1..Len(dPacked.elems) :
             /\ dPacked.elems[j].kind = "dist"
             /\ Len(dPacked.elems[j].elems) = NumDevices
             /\ \A i \in 1..NumDevices :
                  dPacked.elems[j].elems[i] = dIn.elems[i].elems[j]

C10_Witness ==
    /\ dPc = "pack"
    /\ NumDevices = 2
    /\ Rectangular
    /\ Len(dPacked.elems) = 2
    /\ dPacked.elems[2].elems = <<DScalar(12), DScalar(22)>>

(***************************************************************************)
(* The training run: TrainingManager.start_training, the callback chain    *)
(* and the state the callbacks keep.  The examples under src/ construct    *)
(* and configure these objects; the classes themselves are modelled from   *)
(* the design: sections 4.4 (callback lifecycle), 4.5 (TrainingManager)    *)
(* and 5 (one controlling thread, sequential callbacks).                   *)
(***************************************************************************)
MaxEpochs == 3
MaxFailures == 1

\* The lengths of the training set (in batches) and of the sliding window
\* that the runs are configured with.
BatchCounts == {1, 2}
WindowLengths == {1, 2}

\* Metric values are exact fractions of hundredths, in lowest terms:
\* a loss of 0.9 is Q(90, 1), the mean of 0.9 and 0.95 is Q(185, 2).
RECURSIVE GCD(_, _)
GCD(a, b) == IF b = 0 THEN a ELSE GCD(b, a % b)

Q(n, d) == [num |-> n \div GCD(n, d), den |-> d \div GCD(n, d)]

Less(a, b) == a.num * b.den < b.num * a.den

\* no value: None, or a key path that is not in the LogTree
NoValue == [num |-> 0, den |-> 0]

RECURSIVE Sum(_)
Sum(w) == IF w = <<>> THEN 0 ELSE Head(w) + Sum(Tail(w))

Mean(w) == Q(Sum(w), Len(w))

\* the last n elements of w
LastN(w, n) == IF Len(w) <= n THEN w ELSE SubSeq(w, Len(w) - n + 1, Len(w))

\* The losses (in hundredths) the Trainer computes for a training batch and
\* the evaluator computes over the validation set.
TrainLosses == {90, 200}
ValLosses == {70, 90, 95}

\* The key paths of the LogTree, below `current`, that the modelled
\* callbacks write and read.
TrainingBatchLoss == "training.batch.loss"
TrainingWindowLoss == "training.window_average.loss"
ValidationDatasetLoss == "validation.dataset.loss"
LogPaths == {TrainingBatchLoss, TrainingWindowLoss, ValidationDatasetLoss}

\* A LogTree entry: the value, and whether it was written at the hook that
\* is being fired (fresh) or at an earlier one.
Entry(v, fresh) == [v |-> v, fresh |-> fresh]
EmptyLogs == [p \in LogPaths |-> Entry(NoValue, FALSE)]

Hooks == {"on_training_start", "on_epoch_start", "on_batch_training_start", "on_batch_training_completed", "on_epoch_completed", "on_training_completed"}

\* create_callbacks_for: the callback list, in registration order
create_callbacks_for_reversed(is_primary) ==
    (IF is_primary THEN <<"LogProgress">> ELSE <<>>) \o <<"CheckpointManager", "TestMetricsLogger", "TrainingMetricsLogger">>

create_callbacks_for(is_primary) ==
    <<"TrainingMetricsLogger", "TestMetricsLogger", "CheckpointManager">> \o (IF is_primary THEN <<"LogProgress">> ELSE <<>>)

\* The arguments create_callbacks_for gives the CheckpointManager.
CheckpointManagerArgsTrainingLoss == [batch_level |-> FALSE, metric_to_monitor |-> "training.batch.loss", metric_monitor_period |-> 1, create_checkpoint_every |-> 0]

CheckpointManagerArgs == [batch_level |-> FALSE, metric_to_monitor |-> "validation.dataset.loss", metric_monitor_period |-> 1, create_checkpoint_every |-> 0]

\* The arguments create_callbacks_for gives the validation TestMetricsLogger.
TestMetricsLoggerArgs == [dataset_name |-> "validation", batch_level |-> FALSE]

(***************************************************************************)
(* What the hooks of the callbacks do.  e is the state a callback can      *)
(* touch: the LogTree (logs), the sliding window (window), the best value  *)
(* (best), the monitoring steps (ckpt) and what was read (seen).           *)
(***************************************************************************)
Touched == [logs |-> tmLogs, window |-> cbWindow, best |-> cbBest, ckpt |-> ckptLog, seen |-> tmSeen]

\* TrainingMetricsLogger: the batch loss goes to training.batch, into the
\* window, and the mean of the window to training.window_average.
SlideKeepingOldest(w, value, length) == IF Len(w) < length THEN Append(w, value) ELSE w

Slide(w, value, length) == LastN(Append(w, value), length)

WindowAverage(w) == Mean(w)

TrainingMetricsLoggerHook(hook, e, loss, length) ==
    IF hook = "on_batch_training_completed"
    THEN LET w == Slide(e.window, loss, length)
         IN  [e EXCEPT !.window = w,
                       !.logs = [@ EXCEPT ![TrainingBatchLoss] = Entry(Q(loss, 1), TRUE),
                                          ![TrainingWindowLoss] = Entry(WindowAverage(w), TRUE)]]
    ELSE e

\* TestMetricsLogger with batch_level=False: once per epoch the loss over
\* the whole validation set goes to validation.dataset.
TestMetricsLoggerHook(hook, e, loss) ==
    IF hook = "on_epoch_completed" /\ ~TestMetricsLoggerArgs.batch_level
    THEN [e EXCEPT !.logs[ValidationDatasetLoss] = Entry(Q(loss, 1), TRUE)]
    ELSE e

\* CheckpointManager: at a monitoring step the monitored value is compared
\* to the best so far; lower is better, no best yet counts as improvement.
IsMonitoringStep(hook, epoch) ==
    /\ hook = (IF CheckpointManagerArgs.batch_level THEN "on_batch_training_completed" ELSE "on_epoch_completed")
    /\ epoch % CheckpointManagerArgs.metric_monitor_period = 0

Improved(value, best) == best = NoValue \/ Less(value, best)

CheckpointManagerHook(hook, e, epoch) ==
    IF IsMonitoringStep(hook, epoch)
    THEN LET m == e.logs[CheckpointManagerArgs.metric_to_monitor]
         IN  IF m.v = NoValue
             THEN [e EXCEPT !.seen.ckpt = m]
             ELSE [e EXCEPT !.seen.ckpt = m,
                            !.best = IF Improved(m.v, e.best) THEN m.v ELSE @,
                            !.ckpt = Append(@, [value |-> m.v, written |-> Improved(m.v, e.best)])]
    ELSE e

\* LogProgress reads the metrics of the batch or epoch just completed.
LogProgressHook(hook, e) ==
    IF hook \in {"on_batch_training_completed", "on_epoch_completed"}
    THEN [e EXCEPT !.seen.lp = e.logs[TrainingBatchLoss]]
    ELSE e

CallHook(name, hook, e, loss, valLoss, epoch, length) ==
    CASE name = "TrainingMetricsLogger" -> TrainingMetricsLoggerHook(hook, e, loss, length)
      [] name = "TestMetricsLogger" -> TestMetricsLoggerHook(hook, e, valLoss)
      [] name = "CheckpointManager" -> CheckpointManagerHook(hook, e, epoch)
      [] name = "LogProgress" -> LogProgressHook(hook, e)

\* the values a hook can draw from its environment
Evaluations(name, hook) ==
    IF name = "TestMetricsLogger" /\ hook = "on_epoch_completed" THEN ValLosses ELSE {0}

(***************************************************************************)
(* The training checkpoint: what get_state serializes of the run and what  *)
(* set_state restores from it.                                             *)
(***************************************************************************)
NoSnapshot == [taken |-> FALSE]

RunState == [epoch |-> tmEpoch, batch_step |-> tmBatch, global_iter |-> tmIter, window |-> cbWindow, best |-> cbBest]

GetState ==
    [taken |-> TRUE,
     manager |-> [epoch |-> tmEpoch, batch_step |-> tmBatch, global_iter |-> tmIter],
     callbacks |-> [TrainingMetricsLogger |-> [window |-> cbWindow], CheckpointManager |-> [best |-> cbBest]]]

SetStateManagerOnly(snapshot) ==
    [epoch |-> snapshot.manager.epoch,
     batch_step |-> snapshot.manager.batch_step,
     global_iter |-> snapshot.manager.global_iter,
     window |-> <<>>,
     best |-> NoValue]

SetState(snapshot) ==
    [epoch |-> snapshot.manager.epoch,
     batch_step |-> snapshot.manager.batch_step,
     global_iter |-> snapshot.manager.global_iter,
     window |-> snapshot.callbacks.TrainingMetricsLogger.window,
     best |-> snapshot.callbacks.CheckpointManager.best]

(***************************************************************************)
(* The run.  A manager is constructed with its callbacks (Configured);     *)
(* start_training fires the hooks; at each hook the callbacks are called   *)
(* from the first registered to the last, each one entered when the one    *)
(* before it has returned.                                                 *)
(***************************************************************************)
Callbacks == create_callbacks_for(tmCfg.is_primary)

\* nothing read yet at this hook
NoSeen == [ckpt |-> Entry(NoValue, FALSE), lp |-> Entry(NoValue, FALSE)]

Configurations == [num_epochs : 1..MaxEpochs, num_batches : BatchCounts, sliding_window_length : WindowLengths, is_primary : BOOLEAN]

\* a manager constructed with one of the given configurations
Constructed(configurations) ==
    /\ tmState = "Configured"
    /\ tmCfg \in configurations
    /\ tmPc = "idle" /\ tmHook = "none" /\ tmCb = 0 /\ tmActive = {} /\ tmOk = {}
    /\ tmEpoch = 0 /\ tmBatch = 0 /\ tmIter = 0 /\ tmLoss = 0
    /\ tmLogs = EmptyLogs /\ tmTrace = <<>> /\ tmFailures = 0
    /\ cbWindow = <<>> /\ cbBest = NoValue /\ ckptLog = <<>>
    /\ tmSeen = NoSeen /\ tmSnap = NoSnapshot /\ tmAtSnap = NoSnapshot /\ tmResumed = "no"

TrainInit == Constructed(Configurations)

\* the driver starts firing hook h
BeginHook(h) ==
    /\ tmPc' = "hook" /\ tmHook' = h /\ tmCb' = 1
    /\ tmActive' = {} /\ tmOk' = {}
    /\ tmTrace' = Append(tmTrace, h)
    /\ tmLogs' = [p \in LogPaths |-> Entry(tmLogs[p].v, FALSE)]
    /\ tmSeen' = NoSeen

\* manager.start_training()
StartTraining ==
    /\ tmState = "Configured" /\ tmResumed # "fresh"
    /\ tmState' = "Running"
    /\ BeginHook("on_training_start")
    /\ UNCHANGED <<tmCfg, tmEpoch, tmBatch, tmIter, tmLoss, tmFailures, cbWindow, cbBest, ckptLog, tmSnap, tmAtSnap, tmResumed>>

\* the hook of the next callback is entered
MayEnter == tmActive = {}

CallbackEnter ==
    /\ tmState = "Running" /\ tmPc = "hook"
    /\ tmCb <= Len(Callbacks)
    /\ MayEnter
    /\ tmActive' = tmActive \cup {tmCb}
    /\ tmCb' = tmCb + 1
    /\ UNCHANGED <<tmState, tmCfg, tmPc, tmHook, tmOk, tmEpoch, tmBatch, tmIter, tmLoss, tmLogs, tmTrace, tmFailures, cbWindow, cbBest, ckptLog, tmSeen, tmSnap, tmAtSnap, tmResumed>>

\* the hook of a callback returns True: it has done its work
CallbackReturnsTrue ==
    /\ tmState = "Running" /\ tmPc = "hook"
    /\ \E i \in tmActive : \E valLoss \in Evaluations(Callbacks[i], tmHook) :
          LET e == CallHook(Callbacks[i], tmHook, Touched, tmLoss, valLoss, tmEpoch, tmCfg.sliding_window_length)
          IN  /\ tmLogs' = e.logs /\ cbWindow' = e.window /\ cbBest' = e.best
              /\ ckptLog' = e.ckpt /\ tmSeen' = e.seen
              /\ tmActive' = tmActive \ {i}
              /\ tmOk' = tmOk \cup {i}
    /\ UNCHANGED <<tmState, tmCfg, tmPc, tmHook, tmCb, tmEpoch, tmBatch, tmIter, tmLoss, tmTrace, tmFailures, tmSnap, tmAtSnap, tmResumed>>

\* the hook of a callback returns False: the failure is recorded, the run
\* goes on with the next callback
FalseHaltsTheRun == "Failed"

FalseIsTolerated == tmState

CallbackReturnsFalse ==
    /\ tmState = "Running" /\ tmPc = "hook"
    /\ tmFailures < MaxFailures
    /\ \E i \in tmActive : tmActive' = tmActive \ {i}
    /\ tmFailures' = tmFailures + 1
    /\ tmState' = FalseIsTolerated
    /\ UNCHANGED <<tmCfg, tmPc, tmHook, tmCb, tmOk, tmEpoch, tmBatch, tmIter, tmLoss, tmLogs, tmTrace, cbWindow, cbBest, ckptLog, tmSeen, tmSnap, tmAtSnap, tmResumed>>

\* the hook of a callback raises a structural error: it propagates out of
\* start_training
CallbackRaises ==
    /\ tmState = "Running" /\ tmPc = "hook"
    /\ \E i \in tmActive : tmActive' = tmActive \ {i}
    /\ tmState' = "Failed" /\ tmPc' = "idle"
    /\ UNCHANGED <<tmCfg, tmHook, tmCb, tmOk, tmEpoch, tmBatch, tmIter, tmLoss, tmLogs, tmTrace, tmFailures, cbWindow, cbBest, ckptLog, tmSeen, tmSnap, tmAtSnap, tmResumed>>

\* every callback of the hook being fired has been called and has returned
HookDone ==
    /\ tmState = "Running" /\ tmPc = "hook"
    /\ tmCb > Len(Callbacks) /\ tmActive = {}

\* the hook that follows hook h once the counters are epoch and batch_step
FollowingHookWithoutEpochCompleted(h, epoch, batch_step) ==
    IF h \in {"on_training_start", "on_epoch_completed", "on_batch_training_completed"}
    THEN (IF epoch < tmCfg.num_epochs THEN "on_epoch_start" ELSE "on_training_completed")
    ELSE (IF batch_step < tmCfg.num_batches THEN "on_batch_training_start" ELSE "on_epoch_completed")

FollowingHook(h, epoch, batch_step) ==
    IF h \in {"on_training_start", "on_epoch_completed"}
    THEN (IF epoch < tmCfg.num_epochs THEN "on_epoch_start" ELSE "on_training_completed")
    ELSE (IF batch_step < tmCfg.num_batches THEN "on_batch_training_start" ELSE "on_epoch_completed")

\* the epoch and batch loops of start_training move on to the next hook
NextHook ==
    /\ HookDone
    /\ tmHook \in {"on_training_start", "on_epoch_start", "on_batch_training_completed", "on_epoch_completed"}
    /\ LET epoch == IF tmHook = "on_epoch_completed" THEN tmEpoch + 1 ELSE tmEpoch
           batch_step == IF tmHook = "on_epoch_completed" THEN 0
                         ELSE IF tmHook = "on_batch_training_completed" THEN tmBatch + 1
                         ELSE tmBatch
           global_iter == IF tmHook = "on_batch_training_completed" THEN tmIter + 1 ELSE tmIter
       IN  /\ tmEpoch' = epoch /\ tmBatch' = batch_step /\ tmIter' = global_iter
           /\ BeginHook(FollowingHook(tmHook, epoch, batch_step))
    /\ UNCHANGED <<tmState, tmCfg, tmLoss, tmFailures, cbWindow, cbBest, ckptLog, tmSnap, tmAtSnap, tmResumed>>

\* between on_batch_training_start and on_batch_training_completed the
\* Trainer trains on the batch
TrainOnBatch ==
    /\ HookDone
    /\ tmHook = "on_batch_training_start"
    /\ tmLoss' \in TrainLosses
    /\ BeginHook("on_batch_training_completed")
    /\ UNCHANGED <<tmState, tmCfg, tmEpoch, tmBatch, tmIter, tmFailures, cbWindow, cbBest, ckptLog, tmSnap, tmAtSnap, tmResumed>>

\* start_training returns
TrainingCompleted ==
    /\ HookDone
    /\ tmHook = "on_training_completed"
    /\ tmState' = "Completed" /\ tmPc' = "idle"
    /\ UNCHANGED <<tmCfg, tmHook, tmCb, tmActive, tmOk, tmEpoch, tmBatch, tmIter, tmLoss, tmLogs, tmTrace, tmFailures, cbWindow, cbBest, ckptLog, tmSeen, tmSnap, tmAtSnap, tmResumed>>

otherThanTrain == <<kpVars, distVars, evalVars, lpVars, bslVars, dfVars, wkVars>>

TrainNext ==
    \/ StartTraining /\ UNCHANGED otherThanTrain
    \/ CallbackEnter /\ UNCHANGED otherThanTrain
    \/ CallbackReturnsTrue /\ UNCHANGED otherThanTrain
    \/ CallbackReturnsFalse /\ UNCHANGED otherThanTrain
    \/ CallbackRaises /\ UNCHANGED otherThanTrain
    \/ NextHook /\ UNCHANGED otherThanTrain
    \/ TrainOnBatch /\ UNCHANGED otherThanTrain
    \/ TrainingCompleted /\ UNCHANGED otherThanTrain

InitTrain == TrainInit /\ KpIdle /\ DistIdle /\ EvalIdle /\ LpIdle /\ LaterIdle

SpecTrain == InitTrain /\ [][TrainNext]_vars

(***************************************************************************)
(* The lifecycle of section 4.4, as the hooks that may follow a hook.      *)
(***************************************************************************)
After(h) ==
    CASE h = "on_training_start" -> {"on_epoch_start", "on_training_completed"}
      [] h = "on_epoch_start" -> {"on_batch_training_start", "on_epoch_completed"}
      [] h = "on_batch_training_start" -> {"on_batch_training_completed"}
      [] h = "on_batch_training_completed" -> {"on_batch_training_start", "on_epoch_completed"}
      [] h = "on_epoch_completed" -> {"on_epoch_start", "on_training_completed"}
      [] h = "on_training_completed" -> {}

\* the number of hooks fired by a complete run of the configured manager
HooksOfACompleteRun == 2 + tmCfg.num_epochs * (2 + 2 * tmCfg.num_batches)

\* C11: the hooks fired by start_training follow the lifecycle: the first
\* is on_training_start, each hook is one the lifecycle allows after the
\* one before it (so on_training_start is never fired again, every
\* on_batch_training_completed directly follows its on_batch_training_start,
\* batch hooks lie between on_epoch_start and on_epoch_completed and nothing
\* follows on_training_completed), callbacks are only called for the hook
\* fired last, and a completed run ends with on_training_completed.
C11_HooksFollowLifecycle ==
    /\ tmState # "Configured" => Len(tmTrace) >= 1 /\ tmTrace[1] = "on_training_start"
    /\ \A i \in 1..(Len(tmTrace) - 1) : tmTrace[i + 1] \in After(tmTrace[i])
    /\ tmPc = "hook" => tmHook = tmTrace[Len(tmTrace)]
    /\ tmActive # {} => tmPc = "hook"
    /\ tmState = "Completed" =>
          /\ tmTrace[Len(tmTrace)] = "on_training_completed"
          /\ Len(tmTrace) = HooksOfACompleteRun

\* a run of two epochs of two batches each has completed
C11_Witness ==
    /\ tmState = "Completed"
    /\ tmCfg.num_epochs = 2 /\ tmCfg.num_batches = 2
    /\ Len(tmTrace) = 14

\* the callback of that class has returned success at the hook being fired
Ran(name) == \E i \in tmOk : Callbacks[i] = name

\* C12: at every hook the callbacks run one at a time in registration
\* order: at most one hook call is in progress, it is the callback entered
\* last, and every callback before it has returned; so what the
\* CheckpointManager read at on_epoch_completed is the validation loss the
\* TestMetricsLogger wrote at that same hook, and what LogProgress read at
\* on_batch_training_completed is the batch loss the TrainingMetricsLogger
\* wrote at that same hook.
C12_CallbacksRunInOrderOneAtATime ==
    /\ Cardinality(tmActive) <= 1
    /\ tmActive \subseteq {tmCb - 1}
    /\ tmOk \subseteq 1..(tmCb - 1)
    /\ (tmHook = "on_epoch_completed" /\ Ran("TestMetricsLogger") /\ Ran("CheckpointManager")) =>
          /\ tmSeen.ckpt.fresh
          /\ tmSeen.ckpt.v = tmLogs[ValidationDatasetLoss].v
    /\ (tmHook = "on_batch_training_completed" /\ Ran("TrainingMetricsLogger") /\ Ran("LogProgress")) =>
          /\ tmSeen.lp.fresh
          /\ tmSeen.lp.v = Q(tmLoss, 1)

\* at the end of the second epoch the CheckpointManager and LogProgress
\* have run after the loggers
C12_Witness ==
    /\ tmHook = "on_epoch_completed" /\ tmEpoch = 1
    /\ Ran("TestMetricsLogger") /\ Ran("CheckpointManager") /\ Ran("LogProgress")
    /\ tmSeen.ckpt.v = Q(70, 1)
    /\ ckptLog[1].value = Q(95, 1)

\* C13: the CheckpointManager writes the best-model checkpoint at a
\* monitoring step exactly when the value of validation.dataset.loss at
\* that step is lower than at every earlier monitoring step (so at the
\* first step always); for the values 0.9, 0.95, 0.7 it writes at steps 1
\* and 3 and not at step 2; the stored best is the lowest value monitored so
\* far, so it never increases.
C13_BestWrittenIffImproved ==
    /\ \A i \in 1..Len(ckptLog) :
          ckptLog[i].written <=> \A j \in 1..(i - 1) : Less(ckptLog[i].value, ckptLog[j].value)
    /\ (tmHook = "on_epoch_completed" /\ Ran("CheckpointManager") /\ tmLogs[ValidationDatasetLoss].v # NoValue) =>
          /\ Len(ckptLog) >= 1
          /\ ckptLog[Len(ckptLog)].value = tmLogs[ValidationDatasetLoss].v
    /\ [i \in 1..Len(ckptLog) |-> ckptLog[i].value] = <<Q(90, 1), Q(95, 1), Q(70, 1)>> =>
          [i \in 1..Len(ckptLog) |-> ckptLog[i].written] = <<TRUE, FALSE, TRUE>>
    /\ ckptLog = <<>> => cbBest = NoValue
    /\ ckptLog # <<>> =>
          /\ \E i \in 1..Len(ckptLog) : cbBest = ckptLog[i].value
          /\ \A i \in 1..Len(ckptLog) : ~Less(ckptLog[i].value, cbBest)

\* the validation loss was 0.9, 0.95 and 0.7 at three monitoring steps
C13_Witness ==
    /\ Len(ckptLog) = 3
    /\ ckptLog[1] = [value |-> Q(90, 1), written |-> TRUE]
    /\ ckptLog[2] = [value |-> Q(95, 1), written |-> FALSE]
    /\ ckptLog[3] = [value |-> Q(70, 1), written |-> TRUE]
    /\ cbBest = Q(70, 1)

C16_FalseIsRecordedNotFatal ==
    /\ [](tmState = "Completed" => (Len(tmTrace) = HooksOfACompleteRun /\ tmCb = Len(Callbacks) + 1))
    /\ [][tmFailures' # tmFailures =>
             /\ tmFailures' = tmFailures + 1
             /\ tmState' = "Running" /\ tmPc' = "hook"
             /\ tmHook' = tmHook /\ tmCb' = tmCb /\ tmTrace' = tmTrace]_vars
    /\ [][(tmTrace' # tmTrace /\ tmTrace # <<>>) => (tmCb = Len(Callbacks) + 1 /\ tmActive = {})]_vars
    /\ [][(tmState' = "Failed" /\ tmState # "Failed") => (tmFailures' = tmFailures /\ tmActive # {} /\ tmActive' = {})]_vars
    /\ [][tmState # "Failed"]_vars

\* a run has completed although a hook returned False
C16_Witness ==
    /\ tmState = "Completed"
    /\ tmFailures = 1
    /\ Len(tmTrace) = HooksOfACompleteRun

(***************************************************************************)
(* Resuming: train_chatbot_reference.py constructs the manager, loads the  *)
(* training checkpoint when one is given, calls set_state with it and then *)
(* start_training.                                                         *)
(***************************************************************************)
\* A training checkpoint is taken of the running manager and, later, the
\* script is run again: a new manager with new callbacks.  What the first
\* process does after the checkpoint is written is invisible to the second,
\* so the two are one step.
CheckpointAndRerun ==
    /\ tmState = "Running" /\ tmResumed = "no"
    /\ tmSnap' = GetState
    /\ tmAtSnap' = RunState
    /\ tmState' = "Configured" /\ tmResumed' = "fresh"
    /\ tmPc' = "idle" /\ tmHook' = "none" /\ tmCb' = 0 /\ tmActive' = {} /\ tmOk' = {}
    /\ tmEpoch' = 0 /\ tmBatch' = 0 /\ tmIter' = 0 /\ tmLoss' = 0
    /\ tmLogs' = EmptyLogs /\ tmTrace' = <<>> /\ tmFailures' = 0
    /\ cbWindow' = <<>> /\ cbBest' = NoValue /\ ckptLog' = <<>>
    /\ tmSeen' = NoSeen
    /\ UNCHANGED tmCfg

\* manager.set_state(checkpoint), before start_training
CallSetState ==
    /\ tmState = "Configured" /\ tmResumed = "fresh"
    /\ LET s == SetState(tmSnap)
       IN  /\ tmEpoch' = s.epoch /\ tmBatch' = s.batch_step /\ tmIter' = s.global_iter
           /\ cbWindow' = s.window /\ cbBest' = s.best
    /\ tmResumed' = "restored"
    /\ UNCHANGED <<tmState, tmCfg, tmPc, tmHook, tmCb, tmActive, tmOk, tmLoss, tmLogs, tmTrace, tmFailures, ckptLog, tmSeen, tmSnap, tmAtSnap>>

\* The runs that are checkpointed and resumed: two epochs of two batches,
\* a window of two values, on a worker that is not the primary one.
ResumeConfigurations == [num_epochs : {2}, num_batches : {2}, sliding_window_length : {2}, is_primary : {FALSE}]

ResumeNext ==
    \/ StartTraining /\ UNCHANGED otherThanTrain
    \/ CallbackEnter /\ UNCHANGED otherThanTrain
    \/ CallbackReturnsTrue /\ UNCHANGED otherThanTrain
    \/ CallbackReturnsFalse /\ UNCHANGED otherThanTrain
    \/ CallbackRaises /\ UNCHANGED otherThanTrain
    \/ NextHook /\ UNCHANGED otherThanTrain
    \/ TrainOnBatch /\ UNCHANGED otherThanTrain
    \/ TrainingCompleted /\ UNCHANGED otherThanTrain
    \/ CheckpointAndRerun /\ UNCHANGED otherThanTrain
    \/ CallSetState /\ UNCHANGED otherThanTrain

InitResume == Constructed(ResumeConfigurations) /\ KpIdle /\ DistIdle /\ EvalIdle /\ LpIdle /\ LaterIdle

SpecResume == InitResume /\ [][ResumeNext]_vars

MaxEvalBatches == 2

\* the metric every evaluator has, and the custom metric of the example
DefaultMetric == "loss"
CustomMetrics == {"classification"}
MetricOrder == <<"loss", "classification">>

\* loss_only_evaluator: no functions given, only the clean-up function
LossOnlyEvaluatorArgs ==
    [gather_metric_inputs_funcs |-> {}, gather_distributed_inputs_funcs |-> {}, combine_metric_inputs_funcs |-> {}, metric_funcs |-> {}, clean_up_batch_data_func |-> TRUE]

\* all_metrics_evaluator: gather, gather-distributed and compute functions
\* for 'classification', the default combine function, a clean-up function
AllMetricsEvaluatorArgs ==
    [gather_metric_inputs_funcs |-> {"classification"}, gather_distributed_inputs_funcs |-> {"classification"}, combine_metric_inputs_funcs |-> {}, metric_funcs |-> {"classification"}, clean_up_batch_data_func |-> TRUE]

\* every way of giving or leaving out the functions of the custom metric
EvaluatorArgs ==
    [gather_metric_inputs_funcs : SUBSET CustomMetrics, gather_distributed_inputs_funcs : SUBSET CustomMetrics, combine_metric_inputs_funcs : {{}}, metric_funcs : SUBSET CustomMetrics, clean_up_batch_data_func : BOOLEAN]

\* the metrics an evaluator computes: the default one and those it has a
\* compute function for
MetricsOf(cfg) == {DefaultMetric} \cup cfg.metric_funcs

\* the functions a metric has: given ones, and the defaults (all four for
\* the default metric, combine for every metric)
HasGather(cfg, m) == m = DefaultMetric \/ m \in cfg.gather_metric_inputs_funcs
HasGatherDistributed(cfg, m) == m = DefaultMetric \/ m \in cfg.gather_distributed_inputs_funcs

\* the check made when the evaluator is constructed
AcceptsAnything(cfg) == FALSE

Misconfigured(cfg) ==
    \E m \in MetricsOf(cfg) : ~HasGather(cfg, m) \/ ~HasGatherDistributed(cfg, m)

(***************************************************************************)
(* evaluate: the calls it makes, in order.  A call is the function (fn),   *)
(* the metric it is called for and the batch (0 when it is not per batch). *)
(***************************************************************************)
Call(fn, m, b) == [fn |-> fn, metric |-> m, batch |-> b]

\* one call of fn per metric, in the order of the metrics
RECURSIVE PerMetric(_, _, _, _)
PerMetric(fn, order, metrics, b) ==
    IF order = <<>> THEN <<>>
    ELSE (IF Head(order) \in metrics THEN <<Call(fn, Head(order), b)>> ELSE <<>>)
         \o PerMetric(fn, Tail(order), metrics, b)

\* steps 1 to 3 for batch b
BatchStepsCleanUpFirst(cfg, job, b) ==
    (IF cfg.clean_up_batch_data_func THEN <<Call("clean_up", "", b)>> ELSE <<>>)
    \o PerMetric("gather", MetricOrder, MetricsOf(cfg), b)
    \o (IF job.distributed THEN PerMetric("gather_distributed", MetricOrder, MetricsOf(cfg), b) ELSE <<>>)

BatchSteps(cfg, job, b) ==
    PerMetric("gather", MetricOrder, MetricsOf(cfg), b)
    \o (IF job.distributed THEN PerMetric("gather_distributed", MetricOrder, MetricsOf(cfg), b) ELSE <<>>)
    \o (IF cfg.clean_up_batch_data_func THEN <<Call("clean_up", "", b)>> ELSE <<>>)

RECURSIVE AllBatchSteps(_, _, _)
AllBatchSteps(cfg, job, b) ==
    IF b > job.num_batches THEN <<>>
    ELSE BatchSteps(cfg, job, b) \o AllBatchSteps(cfg, job, b + 1)

\* steps 1 to 5
Plan(cfg, job) ==
    AllBatchSteps(cfg, job, 1)
    \o (IF job.dataset THEN PerMetric("combine", MetricOrder, MetricsOf(cfg), 0) ELSE <<>>)
    \o PerMetric("compute", MetricOrder, MetricsOf(cfg), 0)

\* The gathered inputs of a metric: the batches gathered, the batches
\* reduced over the devices, and whether the batches were combined.
NoInputs == [gathered |-> <<>>, reduced |-> {}, combined |-> FALSE]

\* the evaluate calls: one batch, or a dataset (window) of batches
Jobs ==
    [num_batches : {1}, dataset : {FALSE}, distributed : BOOLEAN]
    \cup [num_batches : 1..MaxEvalBatches, dataset : {TRUE}, distributed : BOOLEAN]

EvInit ==
    /\ evState = "new"
    /\ evCfg \in EvaluatorArgs
    /\ evJob = <<>> /\ evPc = 0 /\ evTrace = <<>>
    /\ evInputs = <<>> /\ evResult = <<>> /\ evErrors = {}

\* MetricEvaluator(...): a misconfigured metric is rejected here
EvConstruct ==
    /\ evState = "new"
    /\ evState' = (IF Misconfigured(evCfg) THEN "rejected" ELSE "ready")
    /\ UNCHANGED <<evCfg, evJob, evPc, evTrace, evInputs, evResult, evErrors>>

\* evaluate(batch_or_dataset) is called
EvEvaluate ==
    /\ evState = "ready"
    /\ evJob' \in Jobs
    /\ evState' = "running" /\ evPc' = 1
    /\ evInputs' = [m \in MetricsOf(evCfg) |-> NoInputs]
    /\ evResult' = <<>> /\ evErrors' = {}
    /\ UNCHANGED <<evCfg, evTrace>>

\* the call evaluate makes next
Running == evState = "running" /\ evPc <= Len(Plan(evCfg, evJob))
NextCall == Plan(evCfg, evJob)[evPc]
Called == /\ evTrace' = Append(evTrace, NextCall) /\ evPc' = evPc + 1

\* step 1; a metric without a gather function cannot be evaluated
EvGather ==
    /\ Running /\ NextCall.fn = "gather"
    /\ Called
    /\ IF HasGather(evCfg, NextCall.metric)
       THEN /\ evInputs' = [evInputs EXCEPT ![NextCall.metric].gathered = Append(@, NextCall.batch)]
            /\ evState' = evState
       ELSE /\ evInputs' = evInputs
            /\ evState' = "aborted"
    /\ UNCHANGED <<evCfg, evJob, evResult, evErrors>>

\* step 2
EvGatherDistributed ==
    /\ Running /\ NextCall.fn = "gather_distributed"
    /\ Called
    /\ IF HasGatherDistributed(evCfg, NextCall.metric)
       THEN /\ evInputs' = [evInputs EXCEPT ![NextCall.metric].reduced = @ \cup {NextCall.batch}]
            /\ evState' = evState
       ELSE /\ evInputs' = evInputs
            /\ evState' = "aborted"
    /\ UNCHANGED <<evCfg, evJob, evResult, evErrors>>

\* step 3
EvCleanUp ==
    /\ Running /\ NextCall.fn = "clean_up"
    /\ Called
    /\ UNCHANGED <<evState, evCfg, evJob, evInputs, evResult, evErrors>>

\* step 4
EvCombine ==
    /\ Running /\ NextCall.fn = "combine"
    /\ Called
    /\ evInputs' = [evInputs EXCEPT ![NextCall.metric].combined = TRUE]
    /\ UNCHANGED <<evState, evCfg, evJob, evResult, evErrors>>

\* step 5: the compute function returns the metric's value, computed from
\* the inputs it was given
EvComputeReturns ==
    /\ Running /\ NextCall.fn = "compute"
    /\ Called
    /\ evResult' = [m \in DOMAIN evResult \cup {NextCall.metric} |->
                       IF m = NextCall.metric THEN evInputs[m] ELSE evResult[m]]
    /\ UNCHANGED <<evState, evCfg, evJob, evInputs, evErrors>>

\* step 5: the compute function raises; the error is logged, the metric
\* has no value, the evaluation goes on
ComputeErrorAborts == "aborted"

ComputeErrorIsLogged == "running"

EvComputeRaises ==
    /\ Running /\ NextCall.fn = "compute"
    /\ Called
    /\ evErrors' = evErrors \cup {NextCall.metric}
    /\ evState' = ComputeErrorIsLogged
    /\ UNCHANGED <<evCfg, evJob, evInputs, evResult>>

\* evaluate returns the metrics
EvReturn ==
    /\ evState = "running" /\ evPc > Len(Plan(evCfg, evJob))
    /\ evState' = "done"
    /\ UNCHANGED <<evCfg, evJob, evPc, evTrace, evInputs, evResult, evErrors>>

otherThanEval == <<kpVars, distVars, trainVars, lpVars, bslVars, dfVars, wkVars>>

EvalNext ==
    \/ EvConstruct /\ UNCHANGED otherThanEval
    \/ EvEvaluate /\ UNCHANGED otherThanEval
    \/ EvGather /\ UNCHANGED otherThanEval
    \/ EvGatherDistributed /\ UNCHANGED otherThanEval
    \/ EvCleanUp /\ UNCHANGED otherThanEval
    \/ EvCombine /\ UNCHANGED otherThanEval
    \/ EvComputeReturns /\ UNCHANGED otherThanEval
    \/ EvComputeRaises /\ UNCHANGED otherThanEval
    \/ EvReturn /\ UNCHANGED otherThanEval

InitEval == EvInit /\ KpIdle /\ DistIdle /\ TrainIdle /\ LpIdle /\ LaterIdle

SpecEval == InitEval /\ [][EvalNext]_vars

\* the positions of the calls evaluate has made
Calls == 1..Len(evTrace)
Before(fn, m, b, i) == \E k \in 1..(i - 1) : evTrace[k] = Call(fn, m, b)

\* C17: a compute function that raises does not abort the evaluation: the
\* error is logged, evaluate goes on to the other metrics, and the metrics
\* it returns are all configured metrics but the ones whose compute raised.
C17_ComputeErrorOmitsOnlyThatMetric ==
    /\ evErrors # {} => evState \in {"running", "done"}
    /\ evState = "done" =>
          /\ DOMAIN evResult = MetricsOf(evCfg) \ evErrors
          /\ \A m \in MetricsOf(evCfg) : \E i \in Calls : evTrace[i] = Call("compute", m, 0)

\* the first metric's compute raised; the second metric is in the result
C17_Witness ==
    /\ evState = "done" /\ evCfg = AllMetricsEvaluatorArgs
    /\ evErrors = {"loss"} /\ DOMAIN evResult = {"classification"}

\* C18: a metric other than the default one that lacks its gather function
\* is rejected when the evaluator is constructed, before any call of
\* evaluate; evaluate never meets a missing function; an evaluator of the
\* default loss alone is accepted without any function given.
C18_MisconfigurationRejectedAtConstruction ==
    /\ evState # "aborted"
    /\ evState = "rejected" => evPc = 0 /\ evTrace = <<>>
    /\ (evState # "new" /\ \E m \in evCfg.metric_funcs : m \notin evCfg.gather_metric_inputs_funcs) => evState = "rejected"
    /\ evCfg.metric_funcs = {} => evState # "rejected"
    /\ evCfg = LossOnlyEvaluatorArgs => evState # "rejected"

\* a compute function for 'classification' without its gather function
C18_Witness ==
    /\ evState = "rejected"
    /\ evCfg.metric_funcs = {"classification"} /\ evCfg.gather_metric_inputs_funcs = {}

\* C19: the order of the calls of evaluate.  Per batch the gather of a
\* metric precedes its gather over the devices; the clean-up of a batch
\* follows all gathers of that batch and precedes every combine and
\* compute; a metric is combined once, after all batches were gathered;
\* compute comes last and is given the combined inputs.
C19_EvaluateStepOrder ==
    /\ \A i \in Calls :
          LET c == evTrace[i]
          IN  /\ c.fn = "gather_distributed" => evJob.distributed /\ Before("gather", c.metric, c.batch, i)
              /\ c.fn = "clean_up" =>
                    /\ evCfg.clean_up_batch_data_func
                    /\ \A m \in MetricsOf(evCfg) :
                          /\ Before("gather", m, c.batch, i)
                          /\ evJob.distributed => Before("gather_distributed", m, c.batch, i)
                    /\ \A j \in Calls :
                          /\ (evTrace[j].fn \in {"gather", "gather_distributed"} /\ evTrace[j].batch = c.batch) => j < i
                          /\ evTrace[j].fn \in {"combine", "compute"} => i < j
              /\ c.fn = "combine" =>
                    /\ evJob.dataset
                    /\ \A b \in 1..evJob.num_batches : Before("gather", c.metric, b, i)
                    /\ \A j \in Calls :
                          /\ evTrace[j] = c => j = i
                          /\ evTrace[j].fn \in {"gather", "gather_distributed", "clean_up"} => j < i
              /\ c.fn = "compute" =>
                    /\ evJob.dataset => Before("combine", c.metric, 0, i)
                    /\ \A j \in Calls : evTrace[j].fn # "compute" => j < i
    /\ evState = "done" =>
          /\ evCfg.clean_up_batch_data_func => \A b \in 1..evJob.num_batches : \E i \in Calls : evTrace[i] = Call("clean_up", "", b)
          /\ \A m \in DOMAIN evResult :
                /\ evResult[m].combined = evJob.dataset
                /\ evResult[m].gathered = [b \in 1..evJob.num_batches |-> b]
                /\ evResult[m].reduced = (IF evJob.distributed THEN 1..evJob.num_batches ELSE {})

\* a distributed evaluation of two batches by the evaluator of all metrics
C19_Witness ==
    /\ evState = "done" /\ evCfg = AllMetricsEvaluatorArgs
    /\ evJob.dataset /\ evJob.distributed /\ evJob.num_batches = MaxEvalBatches
    /\ DOMAIN evResult = {"loss", "classification"}

(***************************************************************************)
(* LogProgress (basic.py) on the logs object, a tree of dicts of the heap. *)
(* A str is written here as one token (K("loss")), so that a key path is   *)
(* the tokens of its keys with "." between them.                           *)
(***************************************************************************)
K(s) == <<s>>
Path(a, b) == <<a, ".", b>>

\* a tuple: its first element (a number) and the auxiliary elements
TupleV(n, aux) == [kind |-> "tuple", num |-> n, chars |-> <<>>, elems |-> aux]
\* the tuple without elements
EmptyTupleV == [kind |-> "tuple", num |-> 0, chars |-> <<"empty">>, elems |-> <<>>]

\* a dict given by its items
Dict(items) == [k \in {i[1] : i \in items} |-> (CHOOSE i \in items : i[1] = k)[2]]

\* the order in which a dict of metrics yields its items
KeyOrder == <<"loss", "auxiliary_results", "duration", "nested", "acc">>

Items(h, d) == SelectSeq(KeyOrder, LAMBDA k : K(k) \in DOMAIN h[d.num])

\* LogProgress.__init__
LogProgressArgs(log_period, set_names, batch_level) ==
    [log_period |-> log_period, set_names |-> set_names, batch_level |-> batch_level, logs_base_path |-> K("current")]

metric_level_names == [batch |-> "Batch", window_average |-> "Moving average", dataset |-> "Computed over dataset", epoch |-> "Epoch"]

skip_only_duration == {"duration"}

skip_metric_names == {"auxiliary_results", "duration"}

\* what is written to stdout: a literal text, a progress line with its
\* arguments, or the metrics of the data sets at one level
Text(t) == [kind |-> "text", level |-> t, head |-> <<>>, sets |-> <<>>]
Line(kind, args) == [kind |-> kind, level |-> "", head |-> args, sets |-> <<>>]
SetsLog(sets) == [kind |-> "metrics", level |-> "", head |-> <<>>, sets |-> sets]

\* a formatted number, or the text that stands for an unusable value
Shown(fmt, n) == [text |-> fmt, num |-> n]
Unknown == [text |-> "[UNKNOWN]", num |-> 0]

\* Callback._get_logs_base(logs)
GetLogsBase(h, cfg, logs) == GetValueAt(h, cfg.logs_base_path, logs, NoneV, TRUE)

\* o[k1][k2]...: the first failing subscript raises
RECURSIVE Dig(_, _, _)
Dig(h, o, keys) ==
    IF keys = <<>> THEN [exc |-> "none", value |-> o]
    ELSE LET item == GetItem(h, o, K(Head(keys)))
         IN  IF item.exc # "none" THEN item ELSE Dig(h, item.value, Tail(keys))

\* '{:d}'.format(v)
FormatD(v) ==
    CASE v.kind = "int" -> [exc |-> "none", shown |-> Shown("d", v.num)]
      [] v.kind = "str" -> [exc |-> "ValueError", shown |-> Unknown]
      [] OTHER          -> [exc |-> "TypeError", shown |-> Unknown]

\* _calc_eta(logs)
CalcEta(h, cfg, logs) ==
    LET current == GetLogsBase(h, cfg, logs).value
        average_batch_duration == Dig(h, current, <<"training_params", "window_average", "duration">>)
        batch_step == GetItem(h, current, K("batch_step"))
        final_batch_step == GetItem(h, logs, K("final_batch_step"))
    IN  IF /\ average_batch_duration.exc = "none"
           /\ average_batch_duration.value.kind = "int"
           /\ average_batch_duration.value.num > 0
           /\ batch_step.exc = "none" /\ batch_step.value.kind = "int"
           /\ final_batch_step.exc = "none" /\ final_batch_step.value.kind = "int"
        THEN Shown("timedelta", average_batch_duration.value.num * (final_batch_step.value.num - batch_step.value.num + 1))
        ELSE Unknown

GetAverageBatchDurationWithoutSignTest(h, cfg, logs) ==
    LET current == GetLogsBase(h, cfg, logs).value
        duration == Dig(h, current, <<"training_params", "window_average", "duration">>)
    IN  IF duration.exc = "none" /\ duration.value.kind = "int"
        THEN Shown("ms", duration.value.num * 1000)
        ELSE Unknown

\* _get_average_batch_duration(logs)
GetAverageBatchDuration(h, cfg, logs) ==
    LET current == GetLogsBase(h, cfg, logs).value
        duration == Dig(h, current, <<"training_params", "window_average", "duration">>)
    IN  IF duration.exc = "none" /\ duration.value.kind = "int" /\ duration.value.num > 0
        THEN Shown("ms", duration.value.num * 1000)
        ELSE Unknown

\* _get_epoch_duration(logs)
GetEpochDuration(h, cfg, logs) ==
    LET current == GetLogsBase(h, cfg, logs).value
        duration == Dig(h, current, <<"training_params", "epoch", "duration">>)
    IN  IF duration.exc = "none" /\ duration.value.kind = "int"
        THEN Shown("timedelta", duration.value.num)
        ELSE Unknown

\* _get_log_format(value) and log_format.format(metric, value), inside the
\* try of _create_log_for
FormatMetric(value) ==
    IF value.kind = "int"
    THEN Shown(IF value.num = 0 THEN "e" ELSE "f", value.num)
    ELSE Unknown

\* `if type(value) is tuple: value = value[0]`: the name is bound to the
\* first element; the dict of metrics keeps the tuple
FirstOfTupleStored(h, metrics, metric, value) ==
    IF value.kind # "tuple" THEN [exc |-> "none", value |-> value, heap |-> h]
    ELSE IF value = EmptyTupleV THEN [exc |-> "IndexError", value |-> NoneV, heap |-> h]
    ELSE [exc |-> "none", value |-> IntV(value.num), heap |-> SetItem(h, metrics, K(metric), IntV(value.num)).heap]

FirstOfTuple(h, metrics, metric, value) ==
    IF value.kind # "tuple" THEN [exc |-> "none", value |-> value, heap |-> h]
    ELSE IF value = EmptyTupleV THEN [exc |-> "IndexError", value |-> NoneV, heap |-> h]
    ELSE [exc |-> "none", value |-> IntV(value.num), heap |-> h]

\* a displayed metric: the names of the metrics it is nested in, and its text
Shows(path, shown) == [path |-> path, text |-> shown.text, num |-> shown.num]

\* `name = expression` followed by the rest of the function body: the
\* expression is evaluated once and the rest is given its value
Bind(expression, Rest(_)) == CHOOSE result \in {Rest(name) : name \in {expression}} : TRUE

\* _create_log_for(metrics, base_metric, log_depth); path holds the base
\* metrics of the enclosing calls
RECURSIVE CreateLogFor(_, _, _)
RECURSIVE LogItems(_, _, _, _, _)
LogItems(h, metrics, items, path, acc) ==
    IF items = <<>> THEN [exc |-> "none", entries |-> acc, heap |-> h]
    ELSE IF Head(items) \in skip_metric_names THEN LogItems(h, metrics, Tail(items), path, acc)
    ELSE Bind(FirstOfTuple(h, metrics, Head(items), h[metrics.num][K(Head(items))]), LAMBDA first :
         IF first.exc # "none" THEN [exc |-> first.exc, entries |-> acc, heap |-> first.heap]
         ELSE IF first.value.kind = "dict"
         THEN Bind(CreateLogFor(first.heap, first.value, Append(path, Head(items))), LAMBDA nested_logs :
              IF nested_logs.exc # "none" THEN [exc |-> nested_logs.exc, entries |-> acc, heap |-> nested_logs.heap]
              ELSE LogItems(nested_logs.heap, metrics, Tail(items), path, IF nested_logs.none THEN acc ELSE acc \cup nested_logs.entries))
         ELSE LogItems(first.heap, metrics, Tail(items), path, acc \cup {Shows(Append(path, Head(items)), FormatMetric(first.value))}))

CreateLogFor(h, metrics, path) ==
    IF metrics.kind # "dict" THEN [exc |-> "none", none |-> TRUE, entries |-> {}, heap |-> h]
    ELSE IF \A k \in DOMAIN h[metrics.num] : \E s \in skip_metric_names : k = K(s)
    THEN [exc |-> "none", none |-> TRUE, entries |-> {}, heap |-> h]
    ELSE Bind(LogItems(h, metrics, Items(h, metrics), path, {Shows(path, Shown("header", 0))}), LAMBDA logged :
         [exc |-> logged.exc, none |-> FALSE, entries |-> logged.entries, heap |-> logged.heap])

\* _create_set_metrics_log_for(set_name, metric_level, logs)
CreateSetMetricsLogFor(h, cfg, set_name, metric_level, logs) ==
    Bind(GetLogsBase(h, cfg, logs), LAMBDA current :
    IF current.exc # "none" THEN [exc |-> current.exc, none |-> TRUE, entries |-> {}, heap |-> current.heap]
    ELSE Bind(GetValueAt(current.heap, Path(set_name, metric_level), current.value, NoneV, FALSE), LAMBDA metrics :
         IF metrics.exc # "none" THEN [exc |-> metrics.exc, none |-> TRUE, entries |-> {}, heap |-> metrics.heap]
         ELSE CreateLogFor(metrics.heap, metrics.value, <<>>)))

\* _write_metric_logs(metric_level, logs): the loop over the set names
RECURSIVE SetMetricsLogs(_, _, _, _, _, _)
SetMetricsLogs(h, cfg, metric_level, logs, i, metrics_log) ==
    IF i > Len(cfg.set_names) THEN [exc |-> "none", sets |-> metrics_log, heap |-> h]
    ELSE Bind(CreateSetMetricsLogFor(h, cfg, cfg.set_names[i], metric_level, logs), LAMBDA set_metrics_log :
         IF set_metrics_log.exc # "none" THEN [exc |-> set_metrics_log.exc, sets |-> metrics_log, heap |-> set_metrics_log.heap]
         ELSE SetMetricsLogs(set_metrics_log.heap, cfg, metric_level, logs, i + 1,
                             IF set_metrics_log.none THEN metrics_log
                             ELSE Append(metrics_log, [set_name |-> cfg.set_names[i], entries |-> set_metrics_log.entries])))

\* _write_metric_logs(metric_level, logs)
WriteMetricLogs(h, cfg, metric_level, logs) ==
    Bind(SetMetricsLogs(h, cfg, metric_level, logs, 1, <<>>), LAMBDA metrics_log :
    [exc |-> metrics_log.exc, heap |-> metrics_log.heap,
     out |-> IF metrics_log.exc = "none" /\ Len(metrics_log.sets) > 0
             THEN <<Text(metric_level_names[metric_level]), SetsLog(metrics_log.sets)>>
             ELSE <<>>])

\* for metric_level in [...]: self._write_metric_logs(...); self._write('\n')
RECURSIVE WriteLevels(_, _, _, _, _)
WriteLevels(h, cfg, levels, logs, out) ==
    IF levels = <<>> THEN [exc |-> "none", out |-> out, heap |-> h]
    ELSE Bind(WriteMetricLogs(h, cfg, Head(levels), logs), LAMBDA written :
         IF written.exc # "none" THEN [exc |-> written.exc, out |-> out, heap |-> written.heap]
         ELSE WriteLevels(written.heap, cfg, Tail(levels), logs, out \o written.out \o <<Text("\n")>>))

\* the arguments of a progress line: the first failing subscript raises,
\* then the first argument that '{:d}' cannot format
RECURSIVE FormatArgs(_)
FormatArgs(args) ==
    IF \E i \in 1..Len(args) : args[i].exc # "none"
    THEN [exc |-> args[CHOOSE i \in 1..Len(args) : args[i].exc # "none" /\ \A j \in 1..(i - 1) : args[j].exc = "none"].exc, head |-> <<>>]
    ELSE LET formatted == [i \in 1..Len(args) |-> IF args[i].d THEN FormatD(args[i].value) ELSE [exc |-> "none", shown |-> args[i].value]]
         IN  IF \E i \in 1..Len(args) : formatted[i].exc # "none"
             THEN [exc |-> formatted[CHOOSE i \in 1..Len(args) : formatted[i].exc # "none" /\ \A j \in 1..(i - 1) : formatted[j].exc = "none"].exc, head |-> <<>>]
             ELSE [exc |-> "none", head |-> [i \in 1..Len(args) |-> formatted[i].shown]]

Subscript(h, o, key) == [exc |-> GetItem(h, o, K(key)).exc, value |-> GetItem(h, o, K(key)).value, d |-> TRUE]
Str(shown) == [exc |-> "none", value |-> shown, d |-> FALSE]

\* the loop that looks for metrics at the dataset level, with its break
RECURSIVE HasDatasetLevelMetrics(_, _, _, _)
HasDatasetLevelMetrics(h, cfg, current, i) ==
    IF i > Len(cfg.set_names) THEN [exc |-> "none", value |-> FALSE, heap |-> h]
    ELSE Bind(GetValueAt(h, Path(cfg.set_names[i], "dataset"), current, NoneV, FALSE), LAMBDA dataset_metrics :
         IF dataset_metrics.exc # "none" THEN [exc |-> dataset_metrics.exc, value |-> FALSE, heap |-> dataset_metrics.heap]
         ELSE IF dataset_metrics.value.kind = "dict" /\ DOMAIN dataset_metrics.heap[dataset_metrics.value.num] # {}
         THEN [exc |-> "none", value |-> TRUE, heap |-> dataset_metrics.heap]
         ELSE HasDatasetLevelMetrics(dataset_metrics.heap, cfg, current, i + 1))

Raised(e, out, h) == [exc |-> e, value |-> FALSE, out |-> out, heap |-> h]
Returned(v, out, h) == [exc |-> "none", value |-> v, out |-> out, heap |-> h]

AtLogPeriodCountingFromOne(batch_step, log_period) ==
    IF batch_step.kind = "int"
    THEN [exc |-> "none", value |-> (batch_step.num + 1) % log_period = 0]
    ELSE [exc |-> "TypeError", value |-> FALSE]

\* batch_step == 0 or batch_step % self.log_period == 0, evaluated before
\* has_dataset_level_metrics is looked at
AtLogPeriod(batch_step, log_period) ==
    IF batch_step.kind = "int"
    THEN [exc |-> "none", value |-> batch_step.num = 0 \/ batch_step.num % log_period = 0]
    ELSE [exc |-> "TypeError", value |-> FALSE]

\* the body of `if batch_step == 0 or ...:` of on_batch_training_completed
WriteProgress(h, cfg, logs, current) ==
    Bind(FormatArgs(<<Subscript(h, current, "epoch"), Subscript(h, logs, "final_epoch"),
                      Str(CalcEta(h, cfg, logs)), Subscript(h, current, "batch_step"),
                      Subscript(h, logs, "final_batch_step"), Str(GetAverageBatchDuration(h, cfg, logs))>>), LAMBDA progress :
    IF progress.exc # "none" THEN Raised(progress.exc, <<>>, h)
    ELSE Bind(WriteLevels(h, cfg, <<"batch", "window_average", "dataset", "epoch">>, logs, <<Line("progress", progress.head)>>), LAMBDA levels :
         IF levels.exc # "none" THEN Raised(levels.exc, levels.out, levels.heap)
         ELSE Returned(TRUE, levels.out \o <<Text("\n")>>, levels.heap)))

\* on_batch_training_completed(training_batch, logs)
OnBatchTrainingCompleted(h, cfg, logs) ==
    IF ~cfg.batch_level THEN Returned(TRUE, <<>>, h)
    ELSE
    Bind(GetLogsBase(h, cfg, logs), LAMBDA current :
    IF current.exc # "none" THEN Raised(current.exc, <<>>, current.heap)
    ELSE Bind(GetItem(current.heap, current.value, K("batch_step")), LAMBDA batch_step :
    IF batch_step.exc # "none" THEN Raised(batch_step.exc, <<>>, current.heap)
    ELSE Bind(HasDatasetLevelMetrics(current.heap, cfg, current.value, 1), LAMBDA has_dataset_level_metrics :
    IF has_dataset_level_metrics.exc # "none" THEN Raised(has_dataset_level_metrics.exc, <<>>, has_dataset_level_metrics.heap)
    ELSE Bind(AtLogPeriod(batch_step.value, cfg.log_period), LAMBDA at_period :
    IF at_period.exc # "none" THEN Raised(at_period.exc, <<>>, has_dataset_level_metrics.heap)
    ELSE IF at_period.value \/ has_dataset_level_metrics.value
    THEN WriteProgress(has_dataset_level_metrics.heap, cfg, logs, current.value)
    ELSE Returned(TRUE, <<>>, has_dataset_level_metrics.heap)))))

\* on_epoch_completed(logs)
OnEpochCompleted(h, cfg, logs) ==
    Bind(GetLogsBase(h, cfg, logs), LAMBDA current :
    IF current.exc # "none" THEN Raised(current.exc, <<>>, current.heap)
    ELSE Bind(FormatArgs(<<Subscript(current.heap, current.value, "epoch"), Subscript(current.heap, logs, "final_epoch"),
                           Str(GetEpochDuration(current.heap, cfg, logs))>>), LAMBDA ready :
    IF ready.exc # "none" THEN Raised(ready.exc, <<Text("\n"), Text("####"), Text("\n")>>, current.heap)
    ELSE Bind(WriteLevels(current.heap, cfg, <<"window_average", "dataset", "epoch">>, logs,
                          <<Text("\n"), Text("####"), Text("\n"), Line("ready", ready.head)>>), LAMBDA levels :
    IF levels.exc # "none" THEN Raised(levels.exc, levels.out, levels.heap)
    ELSE Returned(TRUE, levels.out \o <<Text("\n")>>, levels.heap))))

(***************************************************************************)
(* The logs objects the hooks are called with, and the calls.              *)
(***************************************************************************)
MaxBatchStep == 2

\* values a metric logger may have stored for a metric
MetricValues == { IntV(0), IntV(3), TupleV(3, << <<"aux">> >>), EmptyTupleV, NoneV, StrV(<<"a">>) }

\* values of a duration; MissingV stands for an absent key
Durations == { MissingV, NoneV, IntV(0), IntV(-1), IntV(5) }

LogsShapes == [metric : MetricValues, duration : Durations, validated : BOOLEAN, keys : {"all", "no_current", "no_final_batch_step"}]

Opt(key, v) == IF v = MissingV THEN {} ELSE {<<K(key), v>>}

\* the heap of a logs object: logs is object 1, `current` object 2
LogsHeap(s) ==
    << Dict({<<K("final_epoch"), IntV(2)>>}
            \cup (IF s.keys = "no_current" THEN {} ELSE {<<K("current"), RefV(2)>>})
            \cup (IF s.keys = "no_final_batch_step" THEN {} ELSE {<<K("final_batch_step"), IntV(MaxBatchStep)>>})),
       Dict({<<K("epoch"), IntV(1)>>, <<K("batch_step"), IntV(0)>>, <<K("training_params"), RefV(3)>>,
             <<K("training"), RefV(6)>>, <<K("validation"), RefV(9)>>}),
       Dict({<<K("window_average"), RefV(4)>>, <<K("epoch"), RefV(5)>>}),
       Dict(Opt("duration", s.duration)),
       Dict(Opt("duration", s.duration)),
       Dict({<<K("batch"), RefV(7)>>, <<K("window_average"), RefV(8)>>}),
       Dict({<<K("loss"), s.metric>>, <<K("auxiliary_results"), StrV(<<"a">>)>>, <<K("duration"), IntV(3)>>}),
       Dict({<<K("loss"), IntV(0)>>, <<K("nested"), RefV(10)>>}),
       Dict({<<K("dataset"), RefV(11)>>}),
       Dict({<<K("acc"), s.metric>>, <<K("duration"), IntV(3)>>}),
       Dict(IF s.validated THEN {<<K("loss"), IntV(3)>>} ELSE {}) >>

LogPeriods == {1, 2}
SetNames == { <<"training">>, <<"training", "validation">> }

NoHookRet == [exc |-> "none", value |-> FALSE]

LpInit ==
    /\ \E s \in LogsShapes : heap = LogsHeap(s) /\ prevHeap = LogsHeap(s)
    /\ root = RefV(1)
    /\ kpPc = "init" /\ kpOp = NoOp /\ kpRet = NoRet /\ kpCalls = 0
    /\ \E log_period \in LogPeriods, set_names \in SetNames, batch_level \in BOOLEAN :
          lpCfg = LogProgressArgs(log_period, set_names, batch_level)
    /\ lpPc = "constructed" /\ lpOut = <<>> /\ lpRet = NoHookRet

\* the training manager calls on_batch_training_completed(batch, logs)
LpOnBatchTrainingCompleted ==
    LET r == OnBatchTrainingCompleted(heap, lpCfg, root)
    IN  /\ heap' = r.heap /\ prevHeap' = heap
        /\ lpPc' = "on_batch_training_completed"
        /\ lpOut' = r.out /\ lpRet' = [exc |-> r.exc, value |-> r.value]
        /\ UNCHANGED <<root, kpPc, kpOp, kpRet, kpCalls, lpCfg>>

\* the training manager calls on_epoch_completed(logs)
LpOnEpochCompleted ==
    LET r == OnEpochCompleted(heap, lpCfg, root)
    IN  /\ heap' = r.heap /\ prevHeap' = heap
        /\ lpPc' = "on_epoch_completed"
        /\ lpOut' = r.out /\ lpRet' = [exc |-> r.exc, value |-> r.value]
        /\ UNCHANGED <<root, kpPc, kpOp, kpRet, kpCalls, lpCfg>>

\* the training manager goes to the next batch: current.batch_step += 1
LpNextBatch ==
    /\ heap[2][K("batch_step")].num < MaxBatchStep
    /\ heap' = [heap EXCEPT ![2][K("batch_step")] = IntV(@.num + 1)]
    /\ prevHeap' = heap
    /\ lpPc' = "next_batch" /\ lpOut' = <<>> /\ lpRet' = NoHookRet
    /\ UNCHANGED <<root, kpPc, kpOp, kpRet, kpCalls, lpCfg>>

otherThanLogProgress == <<distVars, trainVars, evalVars, bslVars, dfVars, wkVars>>

LogProgressNext ==
    \/ LpOnBatchTrainingCompleted /\ UNCHANGED otherThanLogProgress
    \/ LpOnEpochCompleted /\ UNCHANGED otherThanLogProgress
    \/ LpNextBatch /\ UNCHANGED otherThanLogProgress

InitLogProgress == LpInit /\ DistIdle /\ TrainIdle /\ EvalIdle /\ LaterIdle

SpecLogProgress == InitLogProgress /\ [][LogProgressNext]_vars

LpHooks == {"on_batch_training_completed", "on_epoch_completed"}

\* C20: LogProgress only reads the logs: after on_batch_training_completed
\* and after on_epoch_completed, returned or raised, every dict of the logs
\* object, at every nesting level, holds what it held when the hook was
\* called.
C20_LogProgressLeavesLogsUnchanged ==
    lpPc \in LpHooks => heap = prevHeap

\* the hook displayed a metric logged as a tuple, inside a nested dict
C20_Witness ==
    /\ lpPc = "on_batch_training_completed" /\ lpRet = [exc |-> "none", value |-> TRUE]
    /\ heap[10][K("acc")].kind = "tuple"
    /\ \E i \in 1..Len(lpOut) : /\ lpOut[i].kind = "metrics"
                                /\ \E e \in lpOut[i].sets[1].entries : e.path = <<"nested", "acc">> /\ e.text = "f" /\ e.num = 3

\* what the last hook was given, read off the heap
BatchStepGiven == heap[2][K("batch_step")].num
HookReturned == lpRet.exc = "none"
StepGateOpen == BatchStepGiven = 0 \/ BatchStepGiven % lpCfg.log_period = 0
DatasetMetricsGiven ==
    \E i \in 1..Len(lpCfg.set_names) :
        LET d == Resolve(heap, root, <<K("current"), K(lpCfg.set_names[i]), K("dataset")>>)
        IN  d.kind = "dict" /\ DOMAIN heap[d.num] # {}

\* C21 as stated: at on_batch_training_completed LogProgress writes if and
\* only if batch_level is on and batch_step is 0 or a multiple of the log
\* period, whatever else the logs hold.
C21_GateByBatchStepAlone ==
    (lpPc = "on_batch_training_completed" /\ HookReturned) =>
        (lpOut # <<>> <=> (lpCfg.batch_level /\ StepGateOpen))

\* C21 amended: with batch_level off the hook writes nothing and returns
\* True; with batch_level on it writes only if batch_step is 0 or a
\* multiple of the log period or one of its data sets has metrics at the
\* dataset level, and when it returns it has written in exactly these cases.
C21_GateByBatchStepOrDatasetMetrics ==
    lpPc = "on_batch_training_completed" =>
        /\ lpOut # <<>> => lpCfg.batch_level /\ (StepGateOpen \/ DatasetMetricsGiven)
        /\ HookReturned => (lpOut # <<>> <=> (lpCfg.batch_level /\ (StepGateOpen \/ DatasetMetricsGiven)))
        /\ ~lpCfg.batch_level => lpOut = <<>> /\ lpRet = [exc |-> "none", value |-> TRUE]

\* a batch step that is no multiple of the period, written because the
\* validation set has dataset metrics; and one not written
C21_Witness ==
    /\ lpPc = "on_batch_training_completed" /\ HookReturned
    /\ lpCfg.batch_level /\ lpCfg.log_period = 2 /\ BatchStepGiven = 1
    /\ DatasetMetricsGiven /\ lpOut # <<>>

(***************************************************************************)
(* BatchSizeLogger (src/mlpug/trainers/callbacks/basic.py).  A training    *)
(* batch is None, a tensor (an array-like object with a shape), a Python   *)
(* int, or a tuple or list of such objects.                                *)
(***************************************************************************)
Tensor(shape) == [kind |-> "tensor", shape |-> shape, elems |-> <<>>]
BInt == [kind |-> "int", shape |-> <<>>, elems |-> <<>>]
BNone == [kind |-> "none", shape |-> <<>>, elems |-> <<>>]
BTuple(es) == [kind |-> "tuple", shape |-> <<>>, elems |-> es]
BList(es) == [kind |-> "list", shape |-> <<>>, elems |-> es]

\* is_chunkable(batch): not None, not a tuple or list, with __len__ and __getitem__
IsChunkableAlsoSequences(batch) == batch.kind \in {"tensor", "tuple", "list"}

IsChunkable(batch) ==
    /\ batch.kind # "none"
    /\ batch.kind \notin {"tuple", "list"}
    /\ batch.kind = "tensor"

\* len(batch)
LenOf(batch) ==
    CASE batch.kind = "tensor" ->
             IF batch.shape = <<>> THEN [exc |-> "TypeError", value |-> 0]
             ELSE [exc |-> "none", value |-> batch.shape[1]]
      [] batch.kind \in {"tuple", "list"} -> [exc |-> "none", value |-> Len(batch.elems)]
      [] OTHER -> [exc |-> "TypeError", value |-> 0]

\* batch[0].size(dim)
SizeOfFirst(batch, dim) ==
    CASE batch.kind \in {"tuple", "list"} /\ batch.elems = <<>> -> [exc |-> "IndexError", value |-> 0]
      [] batch.kind \in {"tuple", "list"} /\ batch.elems # <<>> ->
             LET first == batch.elems[1]
             IN  IF first.kind # "tensor" THEN [exc |-> "AttributeError", value |-> 0]
                 ELSE IF dim + 1 > Len(first.shape) THEN [exc |-> "IndexError", value |-> 0]
                 ELSE [exc |-> "none", value |-> first.shape[dim + 1]]
      [] OTHER -> [exc |-> "TypeError", value |-> 0]

BatchSizeLoggerArgs(batch_dimension) ==
    [batch_dimension |-> batch_dimension, logs_base_path |-> K("current")]

\* on_batch_training_start(training_batch, logs): the right-hand side is
\* evaluated first, then the subscripts of the target, then the item is set
OnBatchTrainingStart(h, cfg, training_batch, logs) ==
    Bind(GetLogsBase(h, cfg, logs), LAMBDA current :
    IF current.exc # "none" THEN Raised(current.exc, <<>>, current.heap)
    ELSE Bind(IF IsChunkable(training_batch) THEN LenOf(training_batch)
              ELSE SizeOfFirst(training_batch, cfg.batch_dimension), LAMBDA size :
    IF size.exc # "none" THEN Raised(size.exc, <<>>, current.heap)
    ELSE Bind(Dig(current.heap, current.value, <<"training_params", "batch">>), LAMBDA batch :
    IF batch.exc # "none" THEN Raised(batch.exc, <<>>, current.heap)
    ELSE Bind(SetItem(current.heap, batch.value, K("batch_size"), IntV(size.value)), LAMBDA set :
    IF set.exc # "none" THEN Raised(set.exc, <<>>, current.heap)
    ELSE Returned(TRUE, <<>>, set.heap)))))

(***************************************************************************)
(* The batches and logs objects the hook is called with.                   *)
(***************************************************************************)
Shapes == { <<3, 4>>, <<5>>, <<>> }

Batches ==
    { Tensor(s) : s \in Shapes }
    \cup { BTuple(<<Tensor(s), Tensor(<<5>>)>>) : s \in Shapes }
    \cup { BList(<<Tensor(s), Tensor(<<5>>)>>) : s \in Shapes }
    \cup { BTuple(<<>>), BTuple(<<BInt, BInt>>), BNone }

BatchDimensions == {0, 1}

\* what the batch dict of the training parameters holds when training starts
BatchParams == { {}, {<<K("batch_size"), IntV(9)>>}, {<<K("duration"), IntV(3)>>} }

\* logs is object 1, current 2, training_params 3, its batch dict 4
BslLogsHeap(params) ==
    << Dict({<<K("final_epoch"), IntV(2)>>, <<K("current"), RefV(2)>>}),
       Dict({<<K("epoch"), IntV(1)>>, <<K("batch_step"), IntV(0)>>, <<K("training_params"), RefV(3)>>,
             <<K("training"), RefV(5)>>}),
       Dict({<<K("batch"), RefV(4)>>, <<K("window_average"), RefV(6)>>}),
       Dict(params),
       Dict({<<K("batch"), RefV(7)>>}),
       Dict({<<K("duration"), IntV(3)>>}),
       Dict({<<K("loss"), IntV(3)>>}) >>

BslInit ==
    /\ \E params \in BatchParams : heap = BslLogsHeap(params) /\ prevHeap = BslLogsHeap(params)
    /\ root = RefV(1)
    /\ kpPc = "init" /\ kpOp = NoOp /\ kpRet = NoRet /\ kpCalls = 0
    /\ \E batch_dimension \in BatchDimensions : bslCfg = BatchSizeLoggerArgs(batch_dimension)
    /\ bslPc = "constructed" /\ bslBatch = BNone /\ bslRet = NoHookRet

\* the training manager calls on_batch_training_start(training_batch, logs)
BslOnBatchTrainingStart ==
    \E training_batch \in Batches :
        LET r == OnBatchTrainingStart(heap, bslCfg, training_batch, root)
        IN  /\ heap' = r.heap /\ prevHeap' = heap
            /\ bslPc' = "on_batch_training_start"
            /\ bslBatch' = training_batch
            /\ bslRet' = [exc |-> r.exc, value |-> r.value]
            /\ UNCHANGED <<root, kpPc, kpOp, kpRet, kpCalls, bslCfg>>

BatchSizeLoggerNext ==
    BslOnBatchTrainingStart /\ UNCHANGED <<distVars, trainVars, evalVars, lpVars, dfVars, wkVars>>

InitBatchSizeLogger == BslInit /\ DistIdle /\ TrainIdle /\ EvalIdle /\ LpIdle /\ DfIdle /\ WkIdle

SpecBatchSizeLogger == InitBatchSizeLogger /\ [][BatchSizeLoggerNext]_vars

\* the two batch representations of the logger
HasLength == bslBatch.kind = "tensor" /\ bslBatch.shape # <<>>
FirstHasBatchDimension ==
    /\ bslBatch.kind \in {"tuple", "list"} /\ bslBatch.elems # <<>>
    /\ bslBatch.elems[1].kind = "tensor"
    /\ Len(bslBatch.elems[1].shape) > bslCfg.batch_dimension

Recorded == Resolve(heap, root, <<K("current"), K("training_params"), K("batch"), K("batch_size")>>)

MaxInvocations == 2

\* the objects given as func: two functions and an int
Callables == {"train_step", "eval_step"}
Funcs == Callables \cup {"5"}

\* basics.validation_utils.is_callable
is_callable(func) == func \in Callables

NoFunc == [kind |-> "none", func |-> "", distribution_strategy |-> NoStrategy, monitor_tracing |-> FALSE]

\* DistributedFuncWrapper.__init__(func, distribution_strategy)
DistributedFuncWrapper(func, distribution_strategy) ==
    [kind |-> "distributed", func |-> func, distribution_strategy |-> distribution_strategy,
     monitor_tracing |-> FALSE]

\* tf.function(monitored_func), monitored_func closing over func
TfFunction(func, monitor_tracing) ==
    [kind |-> "tf_function", func |-> func, distribution_strategy |-> NoStrategy,
     monitor_tracing |-> monitor_tracing]

\* wrap_in_tf_func(func, monitor_tracing=..., logger=...); has_logger is
\* FALSE for the default logger=None
WrapInTfFunc(func, monitor_tracing, has_logger) ==
    IF ~is_callable(func) THEN [exc |-> "ValueError", value |-> NoFunc]
    ELSE IF ~has_logger THEN [exc |-> "AttributeError", value |-> NoFunc]
    ELSE [exc |-> "none", value |-> TfFunction(func, monitor_tracing)]

CreateDistributedFuncUnchecked(func, distribution_strategy) ==
    [exc |-> "none", value |-> DistributedFuncWrapper(func, distribution_strategy)]

\* create_distributed_func(func, distribution_strategy)
CreateDistributedFunc(func, distribution_strategy) ==
    IF ~is_callable(func) THEN [exc |-> "ValueError", value |-> NoFunc]
    ELSE [exc |-> "none", value |-> DistributedFuncWrapper(func, distribution_strategy)]

\* what func(*args, **kwargs) returns
Apply(func, args, kwargs) == [of |-> func, args |-> args, kwargs |-> kwargs, replicas |-> 0]

\* strategy.run(func, args=args, kwargs=kwargs): func runs on every replica
Run(strategy, func, args, kwargs) ==
    [func |-> func, args |-> args, kwargs |-> kwargs,
     result |-> [Apply(func, args, kwargs) EXCEPT !.replicas = strategy.replicas]]

NoResult == Apply("", <<>>, {})
NoCall == [exc |-> "none", value |-> NoResult, runs |-> <<>>]

\* DistributedFuncWrapper.__call__(*args, **kwargs), and the call of a
\* tf.function, which calls func itself
CallFunc(wrapper, args, kwargs) ==
    CASE wrapper.kind = "distributed" ->
             IF wrapper.distribution_strategy = NoStrategy
             THEN [NoCall EXCEPT !.exc = "AttributeError"]
             ELSE LET run == Run(wrapper.distribution_strategy, wrapper.func, args, kwargs)
                  IN  [exc |-> "none", value |-> run.result, runs |-> <<run>>]
      [] wrapper.kind = "tf_function" ->
             IF ~is_callable(wrapper.func) THEN [NoCall EXCEPT !.exc = "TypeError"]
             ELSE [exc |-> "none", value |-> Apply(wrapper.func, args, kwargs), runs |-> <<>>]
      [] OTHER -> [NoCall EXCEPT !.exc = "TypeError"]

\* the arguments of the invocations
PositionalArgs == { <<>>, <<1>>, <<1, 2>> }
KeywordArgs == { {}, {<<"training", 1>>} }

NoDfOp == [call |-> "none", func |-> "", distribution_strategy |-> NoStrategy,
           args |-> <<>>, kwargs |-> {}, before |-> 0]

DfInit ==
    /\ dfPc = "init" /\ dfWrapper = NoFunc /\ dfOp = NoDfOp /\ dfRuns = <<>>
    /\ dfRet = [exc |-> "none", value |-> NoResult]

\* f = create_distributed_func(func, distribution_strategy)
DfCreate ==
    /\ dfPc = "init"
    /\ \E func \in Funcs, strategy \in {NoStrategy, Strategy(MaxDevices)} :
          LET r == CreateDistributedFunc(func, strategy)
          IN  /\ dfWrapper' = r.value
              /\ dfOp' = [NoDfOp EXCEPT !.call = "create", !.func = func, !.distribution_strategy = strategy]
              /\ dfRet' = [exc |-> r.exc, value |-> NoResult]
    /\ dfPc' = "create"
    /\ UNCHANGED dfRuns

\* f = wrap_in_tf_func(func, monitor_tracing=..., logger=...)
DfWrap ==
    /\ dfPc = "init"
    /\ \E func \in Funcs, monitor_tracing \in BOOLEAN, has_logger \in BOOLEAN :
          LET r == WrapInTfFunc(func, monitor_tracing, has_logger)
          IN  /\ dfWrapper' = r.value
              /\ dfOp' = [NoDfOp EXCEPT !.call = "wrap", !.func = func]
              /\ dfRet' = [exc |-> r.exc, value |-> NoResult]
    /\ dfPc' = "wrap"
    /\ UNCHANGED dfRuns

\* f(*args, **kwargs), for the f that the wrapping returned
DfCall ==
    /\ dfPc \in {"create", "wrap", "call"}
    /\ dfWrapper # NoFunc
    /\ Len(dfRuns) < MaxInvocations
    /\ \E args \in PositionalArgs, kwargs \in KeywordArgs :
          LET r == CallFunc(dfWrapper, args, kwargs)
          IN  /\ dfRuns' = dfRuns \o r.runs
              /\ dfOp' = [dfOp EXCEPT !.call = "call", !.args = args, !.kwargs = kwargs,
                                      !.before = Len(dfRuns)]
              /\ dfRet' = [exc |-> r.exc, value |-> r.value]
    /\ dfPc' = "call"
    /\ UNCHANGED dfWrapper

DistFuncNext ==
    \/ DfCreate /\ UNCHANGED <<kpVars, distVars, trainVars, evalVars, lpVars, bslVars, wkVars>>
    \/ DfWrap /\ UNCHANGED <<kpVars, distVars, trainVars, evalVars, lpVars, bslVars, wkVars>>
    \/ DfCall /\ UNCHANGED <<kpVars, distVars, trainVars, evalVars, lpVars, bslVars, wkVars>>

InitDistFunc == DfInit /\ KpIdle /\ DistIdle /\ TrainIdle /\ EvalIdle /\ LpIdle /\ BslIdle /\ WkIdle

SpecDistFunc == InitDistFunc /\ [][DistFuncNext]_vars

\* C23: a call of what create_distributed_func(func, strategy) returned
\* makes exactly one call of strategy.run, with func, the positional
\* arguments and the keyword arguments of the call, and returns what run
\* returned; wrapping an object that is not callable raises ValueError in
\* create_distributed_func and in wrap_in_tf_func, so that no call ever
\* reaches a wrapped object that is not callable.
C23_RunOncePerInvocation ==
    /\ (dfPc = "call" /\ dfWrapper.kind = "distributed" /\ dfWrapper.distribution_strategy # NoStrategy) =>
          /\ Len(dfRuns) = dfOp.before + 1
          /\ dfRuns[Len(dfRuns)].func = dfOp.func
          /\ dfRuns[Len(dfRuns)].args = dfOp.args
          /\ dfRuns[Len(dfRuns)].kwargs = dfOp.kwargs
          /\ dfRet = [exc |-> "none", value |-> dfRuns[Len(dfRuns)].result]
    /\ (dfPc \in {"create", "wrap"} /\ dfOp.func \notin Callables) =>
          dfRet.exc = "ValueError" /\ dfWrapper = NoFunc
    /\ dfPc = "call" => dfOp.func \in Callables /\ dfWrapper.func = dfOp.func

\* the second call of a distributed function, with one positional and one
\* keyword argument
C23_Witness ==
    /\ dfPc = "call" /\ dfWrapper.kind = "distributed" /\ Len(dfRuns) = 2
    /\ dfOp.args = <<1>> /\ dfOp.kwargs = {<<"training", 1>>}
    /\ dfRuns[1].args # dfRuns[2].args
    /\ dfRet.value.replicas = MaxDevices

(***************************************************************************)
(* The workers of the fashion-MNIST training job                           *)
(* (src/mlpug/examples/documentation/pytorch/xla/fashion_mnist.py):        *)
(* xmp.spawn starts nprocs processes that each run worker_fn; without      *)
(* --distributed the main process runs worker_fn(0, flags) itself.  Worker *)
(* 1 is the master ordinal.  xm.rendezvous(tag) blocks the caller until    *)
(* every worker of the job has called it with that tag.                    *)
(***************************************************************************)
MaxWorkers == 3

Tags == {"loading_data", "worker_ready"}

Workers == 1..wkCfg.nprocs

\* is_primary = not distributed or xm.is_master_ordinal()
IsPrimary(distributed, worker) == ~distributed \/ worker = 1

\* if distributed and not is_primary: xm.rendezvous("loading_data")
NeverWaitsBeforeLoading(distributed, is_primary) == FALSE

WaitsBeforeLoading(distributed, is_primary) == distributed /\ ~is_primary

\* if distributed and is_primary: xm.rendezvous("loading_data")
WaitsAfterLoading(distributed, is_primary) == distributed /\ is_primary

\* worker w calls xm.rendezvous(tag)
Reach(w, tag) ==
    /\ wkArrived' = [wkArrived EXCEPT ![tag] = @ \cup {w}]
    /\ wkCount' = [wkCount EXCEPT ![w][tag] = @ + 1]

\* the rendezvous lets its callers go on
Released(tag) == wkArrived[tag] = Workers

\* the __main__ block: spawn the workers, or call worker_fn
TrainingJobs ==
    {[distributed |-> FALSE, nprocs |-> 1]}
    \cup {[distributed |-> TRUE, nprocs |-> n] : n \in 1..MaxWorkers}

WkInit ==
    /\ wkCfg \in TrainingJobs
    /\ wkPc = [w \in Workers |-> "start"]
    /\ wkArrived = [tag \in Tags |-> {}]
    /\ wkCount = [w \in Workers |-> [tag \in Tags |-> 0]]
    /\ wkLoaded = {} /\ wkTrained = {}

\* lines 62-101: the device setup; without an XLA device worker_fn returns
WkDeviceSetup(w) ==
    /\ wkPc[w] = "start"
    /\ \E xla_available \in BOOLEAN :
          wkPc' = [wkPc EXCEPT ![w] = IF xla_available THEN "devices" ELSE "unable"]
    /\ UNCHANGED <<wkCfg, wkArrived, wkCount, wkLoaded, wkTrained>>

\* lines 104-107: a worker that is not primary goes to the rendezvous, the
\* primary worker starts load_data
WkBeforeLoadData(w) ==
    /\ wkPc[w] = "devices"
    /\ IF WaitsBeforeLoading(wkCfg.distributed, IsPrimary(wkCfg.distributed, w))
       THEN Reach(w, "loading_data") /\ wkPc' = [wkPc EXCEPT ![w] = "at_loading_data"]
       ELSE wkPc' = [wkPc EXCEPT ![w] = "load_data"] /\ UNCHANGED <<wkArrived, wkCount>>
    /\ UNCHANGED <<wkCfg, wkLoaded, wkTrained>>

\* xm.rendezvous returns: to load_data (line 107), to the set-up of the
\* training (lines 112-178) or to the last log line (line 183)
WkRendezvousReturns(w) ==
    /\ wkPc[w] \in {"at_loading_data", "at_worker_ready"}
    /\ Released(IF wkPc[w] = "at_loading_data" THEN "loading_data" ELSE "worker_ready")
    /\ wkPc' = [wkPc EXCEPT ![w] =
                   CASE wkPc[w] = "at_worker_ready" -> "done"
                     [] wkPc[w] = "at_loading_data" /\ w \in wkLoaded -> "start_training"
                     [] OTHER -> "load_data"]
    /\ UNCHANGED <<wkCfg, wkArrived, wkCount, wkLoaded, wkTrained>>

\* line 107: load_data returns
WkLoadData(w) ==
    /\ wkPc[w] = "load_data"
    /\ wkLoaded' = wkLoaded \cup {w}
    /\ wkPc' = [wkPc EXCEPT ![w] = "loaded"]
    /\ UNCHANGED <<wkCfg, wkArrived, wkCount, wkTrained>>

\* lines 109-110: the primary worker goes to the rendezvous, the others go on
WkAfterLoadData(w) ==
    /\ wkPc[w] = "loaded"
    /\ IF WaitsAfterLoading(wkCfg.distributed, IsPrimary(wkCfg.distributed, w))
       THEN Reach(w, "loading_data") /\ wkPc' = [wkPc EXCEPT ![w] = "at_loading_data"]
       ELSE wkPc' = [wkPc EXCEPT ![w] = "start_training"] /\ UNCHANGED <<wkArrived, wkCount>>
    /\ UNCHANGED <<wkCfg, wkLoaded, wkTrained>>

\* lines 112-178: the set-up of the training; manager.start_training() returns
WkStartTraining(w) ==
    /\ wkPc[w] = "start_training"
    /\ wkTrained' = wkTrained \cup {w}
    /\ wkPc' = [wkPc EXCEPT ![w] = "trained"]
    /\ UNCHANGED <<wkCfg, wkArrived, wkCount, wkLoaded>>

\* line 181: xm.rendezvous("worker_ready")
WkWorkerReady(w) ==
    /\ wkPc[w] = "trained"
    /\ Reach(w, "worker_ready")
    /\ wkPc' = [wkPc EXCEPT ![w] = "at_worker_ready"]
    /\ UNCHANGED <<wkCfg, wkLoaded, wkTrained>>

\* line 183: logger.info("DONE."), and worker_fn returns
WkDone(w) ==
    /\ wkPc[w] = "done"
    /\ wkPc' = [wkPc EXCEPT ![w] = "returned"]
    /\ UNCHANGED <<wkCfg, wkArrived, wkCount, wkLoaded, wkTrained>>

otherThanWorkers == <<kpVars, distVars, trainVars, evalVars, lpVars, bslVars, dfVars>>

WorkerStep(w) ==
    \/ WkDeviceSetup(w) /\ UNCHANGED otherThanWorkers
    \/ WkBeforeLoadData(w) /\ UNCHANGED otherThanWorkers
    \/ WkRendezvousReturns(w) /\ UNCHANGED otherThanWorkers
    \/ WkLoadData(w) /\ UNCHANGED otherThanWorkers
    \/ WkAfterLoadData(w) /\ UNCHANGED otherThanWorkers
    \/ WkStartTraining(w) /\ UNCHANGED otherThanWorkers
    \/ WkWorkerReady(w) /\ UNCHANGED otherThanWorkers
    \/ WkDone(w) /\ UNCHANGED otherThanWorkers

WorkersNext == \E w \in Workers : WorkerStep(w)

InitWorkers == WkInit /\ KpIdle /\ DistIdle /\ TrainIdle /\ EvalIdle /\ LpIdle /\ BslIdle /\ DfIdle

SpecWorkers == InitWorkers /\ [][WorkersNext]_vars

\* every worker is a process of its own: a worker that can take its next
\* step takes it (load_data and start_training return)
SpecWorkersFair == SpecWorkers /\ \A w \in 1..MaxWorkers : WF_vars(w \in Workers /\ WorkerStep(w))

\* the positions of worker_fn from the start of load_data on
FromLoadData == {"load_data", "loaded", "start_training", "trained", "at_worker_ready", "done", "returned"}
PassedWorkerReady == {"done", "returned"}
HasReturned == {"unable", "returned"}

\* C24: in a distributed job, a worker other than the primary one is at or
\* past the start of load_data only if load_data of the primary worker has
\* returned; a worker is past the 'worker_ready' rendezvous only if
\* start_training has returned in every worker; no worker reaches
\* 'loading_data' or 'worker_ready' twice, none reaches 'worker_ready'
\* without having reached 'loading_data', and a worker that is past
\* 'worker_ready' has reached each of them once.
C24_RendezvousOrdersWorkers ==
    wkCfg.distributed =>
        \A w \in Workers :
            /\ (w # 1 /\ wkPc[w] \in FromLoadData) => 1 \in wkLoaded
            /\ wkPc[w] \in PassedWorkerReady => wkTrained = Workers
            /\ wkCount[w]["loading_data"] <= 1 /\ wkCount[w]["worker_ready"] <= 1
            /\ wkCount[w]["worker_ready"] <= wkCount[w]["loading_data"]
            /\ wkPc[w] \in PassedWorkerReady =>
                  wkCount[w]["loading_data"] = 1 /\ wkCount[w]["worker_ready"] = 1

\* three workers, the last one still to log DONE after the others returned
C24_Witness ==
    /\ wkCfg.distributed /\ wkCfg.nprocs = 3
    /\ wkPc[1] = "returned" /\ wkPc[2] = "returned" /\ wkPc[3] = "done"

\* C25: in a distributed job, worker_fn eventually returns in every worker.
C25_EveryWorkerReturns ==
    <>(wkCfg.distributed => \A w \in Workers : wkPc[w] \in HasReturned)

\* C26: when the keys of the path lead through dicts to a stored value,
\* get_value_at does not raise; it returns the default if that value is
\* None, as it does for a path that is missing in such a tree, and returns
\* any other stored value, 0, the empty string, the empty list and the
\* empty dict included, as it is stored.
C26_OnlyNoneGivesDefault ==
    (kpPc = "get" /\ At(heap, NumSegs) # MissingV) =>
        /\ kpRet.exc = "none"
        /\ At(heap, NumSegs) = NoneV => kpRet.value = kpOp.default
        /\ At(heap, NumSegs) # NoneV => kpRet.value = At(heap, NumSegs)

\* a stored empty string read with the default 7, in a tree that also holds a None
C26_Witness ==
    /\ kpPc = "get" /\ NumSegs = 2
    /\ At(heap, NumSegs) = StrV(<<>>)
    /\ kpOp.default = IntV(7) /\ kpRet.value = StrV(<<>>)

\* C27: for a list or a tuple, contains_per_replica_data returns what it
\* returns for the first element, whatever the other elements are: false
\* when a scalar comes first and a per-device composite second; for an
\* empty list it returns false.
C27_FirstElementDecides ==
    (dPc = "contains" /\ dOp.data.kind \in {"list", "tuple"}) =>
        /\ dOp.data.elems = <<>> => ~dRet.flag
        /\ dOp.data.elems # <<>> => dRet.flag = ContainsPerReplicaData(dOp.data.elems[1])
        /\ (dOp.wraps # <<>> /\ dOp.wraps[1].place = "second") => ~dRet.flag
        /\ (dOp.wraps # <<>> /\ dOp.wraps[1].place = "first") =>
              dRet.flag = ContainsPerReplicaData(Nested(dOp.core, Tail(dOp.wraps)))

\* a list of a scalar and a per-device composite, in this order
C27_Witness ==
    /\ dPc = "contains" /\ dOp.data.kind = "list"
    /\ Len(dOp.data.elems) = 2
    /\ dOp.data.elems[1].kind = "scalar" /\ dOp.data.elems[2].kind = "dist"
    /\ ~dRet.flag

\* C28: unpack_per_replica_and_map given packed data only and no strategy
\* raises ValueError without having applied map_func; given unpacked data
\* only, with a strategy or without one, it returns the tuple of map_func
\* of every element, having applied map_func to these elements in order
\* and having called no method of the strategy.
C28_StrategyOnlyForPackedData ==
    dPc = "unpack" =>
        /\ (dOp.per_replica_data # DNone /\ dOp.unpacked_replica_data = DNone
                /\ dOp.distribution_strategy = NoStrategy) =>
              dRet.exc = "ValueError" /\ dRet.applied = <<>> /\ dRet.consulted = 0
        /\ (dOp.per_replica_data = DNone /\ dOp.unpacked_replica_data # DNone) =>
              /\ dRet.exc = "none"
              /\ dRet.value = DTuple([i \in 1..Len(dOp.unpacked_replica_data.elems) |->
                                         ApplyMap(dOp.map_func, dOp.unpacked_replica_data.elems[i])])
              /\ dRet.applied = dOp.unpacked_replica_data.elems
              /\ dRet.consulted = 0

\* unpacked data of two devices mapped in a call that was not given a strategy
C28_Witness ==
    /\ dPc = "unpack"
    /\ dOp.per_replica_data = DNone /\ dOp.unpacked_replica_data # DNone
    /\ dOp.distribution_strategy = NoStrategy /\ dOp.map_func = "wrap"
    /\ Len(dRet.value.elems) = 2 /\ dRet.exc = "none"

\* the metric level a level title stands for
LevelOf(title) == CHOOSE level \in DOMAIN metric_level_names : metric_level_names[level] = title

\* the value stored for a displayed metric of the set at position j of the
\* metrics text at position i of the output
StoredFor(i, j, e) ==
    Resolve(heap, root, <<K("current"), K(lpOut[i].sets[j].set_name), K(LevelOf(lpOut[i - 1].level))>>
                            \o [k \in 1..Len(e.path) |-> K(e.path[k])])

\* C29: in everything a LogProgress hook wrote, a metric whose logged value
\* is a tuple is displayed with the first element of the tuple and nothing
\* else of it, and no displayed metric is named 'auxiliary_results' or
\* 'duration' or lies in a dict of such a name, at any nesting level.
C29_FirstOfTupleAndSkippedNames ==
    lpPc \in LpHooks =>
        \A i \in 1..Len(lpOut) : lpOut[i].kind = "metrics" =>
            \A j \in 1..Len(lpOut[i].sets) : \A e \in lpOut[i].sets[j].entries :
                e.text # "header" =>
                    /\ \A k \in 1..Len(e.path) : e.path[k] \notin {"auxiliary_results", "duration"}
                    /\ StoredFor(i, j, e) # MissingV
                    /\ StoredFor(i, j, e).kind = "tuple" =>
                          e.text = "f" /\ e.num = StoredFor(i, j, e).num

\* on_epoch_completed displayed a metric logged as a tuple, from a nested
\* dict that also holds a duration
C29_Witness ==
    /\ lpPc = "on_epoch_completed" /\ lpRet = [exc |-> "none", value |-> TRUE]
    /\ heap[10][K("acc")] = TupleV(3, << <<"aux">> >>)
    /\ K("duration") \in DOMAIN heap[10]
    /\ \E i \in 1..Len(lpOut) : /\ lpOut[i].kind = "metrics"
                                /\ \E e \in lpOut[i].sets[1].entries : e.path = <<"nested", "acc">> /\ e.num = 3

\* the timing data of the logs, and what else the hooks read
WindowDuration == Resolve(heap, root, <<K("current"), K("training_params"), K("window_average"), K("duration")>>)
EpochDuration == Resolve(heap, root, <<K("current"), K("training_params"), K("epoch"), K("duration")>>)
Unusable(duration) == duration \in {MissingV, NoneV} \/ (duration.kind = "int" /\ duration.num <= 0)
NothingElseFails ==
    /\ K("current") \in DOMAIN heap[1] /\ K("final_batch_step") \in DOMAIN heap[1]
    /\ heap[7][K("loss")] # EmptyTupleV /\ heap[10][K("acc")] # EmptyTupleV

\* the progress line of on_batch_training_completed, the READY line of on_epoch_completed
ProgressLine == lpOut[1]
ReadyLine == lpOut[4]

\* C30, as the spec has it: on logs that hold everything else a hook
\* reads, the hook returns True whatever the timing data are; with a
\* window duration that is absent, None, zero or negative the progress
\* line shows '[UNKNOWN]' for the ETA and for the average batch time, and
\* with such an epoch duration the READY line shows '[UNKNOWN]' for the
\* duration.
C30_UnusableTimingIsUnknown ==
    (lpPc \in LpHooks /\ NothingElseFails) =>
        /\ lpRet = [exc |-> "none", value |-> TRUE]
        /\ (lpPc = "on_batch_training_completed" /\ lpOut # <<>> /\ Unusable(WindowDuration)) =>
              /\ ProgressLine.kind = "progress"
              /\ ProgressLine.head[3] = Unknown /\ ProgressLine.head[6] = Unknown
        /\ (lpPc = "on_epoch_completed" /\ Unusable(EpochDuration)) =>
              ReadyLine.kind = "ready" /\ ReadyLine.head[3] = Unknown

\* C30, amended: on logs that hold everything else a hook reads, the hook
\* returns True whatever the timing data are; with a window duration that
\* is absent, None, zero or negative the progress line shows '[UNKNOWN]'
\* for the ETA and for the average batch time; with an epoch duration that
\* is absent or None the READY line shows '[UNKNOWN]' for the duration,
\* and with any number, zero and negative ones included, it shows that
\* number of seconds as a time span.
C30_TimingNeverFailsHook ==
    (lpPc \in LpHooks /\ NothingElseFails) =>
        /\ lpRet = [exc |-> "none", value |-> TRUE]
        /\ (lpPc = "on_batch_training_completed" /\ lpCfg.batch_level
                /\ (StepGateOpen \/ DatasetMetricsGiven)) => lpOut # <<>>
        /\ (lpPc = "on_batch_training_completed" /\ lpOut # <<>> /\ Unusable(WindowDuration)) =>
              /\ ProgressLine.kind = "progress"
              /\ ProgressLine.head[3] = Unknown /\ ProgressLine.head[6] = Unknown
        /\ lpPc = "on_epoch_completed" =>
              /\ ReadyLine.kind = "ready"
              /\ EpochDuration \in {MissingV, NoneV} => ReadyLine.head[3] = Unknown
              /\ EpochDuration.kind = "int" => ReadyLine.head[3] = Shown("timedelta", EpochDuration.num)

\* a progress line written with a negative window duration
C30_Witness ==
    /\ lpPc = "on_batch_training_completed" /\ lpRet = [exc |-> "none", value |-> TRUE]
    /\ WindowDuration = IntV(-1)
    /\ lpOut # <<>> /\ ProgressLine.head[3] = Unknown /\ ProgressLine.head[6] = Unknown

====
